---------------------------- MODULE Spec2Model ----------------------------
(***************************************************************************)
(* State-machine model of the simulation core of "42 Guns"                 *)
(* (src/games/42-guns): entity/component store, event bus handlers,        *)
(* session state machine, collision resolver, damage resolver, wave        *)
(* director and the frame loop of main.ts that schedules them.             *)
(*                                                                         *)
(* Time is counted in units of 0.025 s, so that every duration of the      *)
(* program is an integer: the frame loop caps dt at 0.1 s (4 units), the   *)
(* invincibility window and the wave pause last 2.0 s (80 units), the      *)
(* player's fire interval 1/8 s is 5 units.                                *)
(* Lengths of the collision resolver are in pixels; radii are in thirds    *)
(* of a pixel (the player's radius is PLAYER_SIZE / 3).                    *)
(***************************************************************************)
EXTENDS Integers, Sequences, FiniteSets, TLC

VARIABLES
  \* core/ecs.ts : World
  nextEntityId, entities, components, toDestroy,
  \* gameplay/game-state.ts : GameStateMachine
  state, previousState,
  \* gameplay/player-system.ts : playerEntity;  main.ts : bombs, shieldHits
  playerEntity, bombs, shieldHits,
  \* gameplay/damage-system.ts : WaveSystem
  currentWave, enemiesAlive, waveActive, wavePauseTimer, waitingForNextWave,
  \* WaveSystem.difficultyMultiplier, WaveSystem.spawnRateMultiplier and
  \* EnemyAISystem.bulletSpeedMultiplier, in hundredths
  difficultyMultiplier, spawnRateMultiplier, bulletSpeedMultiplier,
  \* PowerUpSystem.pendingSpawns, PowerUpSystem.activeEffects
  pendingSpawns, activeEffects,
  \* EnemyAISystem.aiStates, EnemyAISystem.playerX, EnemyAISystem.playerY
  aiStates, playerX, playerY,
  \* selectedIndex of the title screen, the pause menu, the game-over screen
  titleSel, pauseSel, overSel,
  \* InputManager.state, and the burst callbacks handed to setTimeout
  inputState, timers,
  \* main.ts gameLoop : its locals input, dt, collisions and its position
  input, dt, collisions, pc,
  \* history: what the bus carried during the last handler, the last call of
  \* transition, the state changes and the event pairs counted so far
  busLog, lastCall, nChanges, nPairs,
  \* the calls of emit in progress, the innermost last, and the steps taken
  \* since the outermost was made
  dispatching,
  \* core/event-bus.ts : EventBus.listeners; the callbacks invoked by the
  \* call just made and the call of emit they answered; the Set objects on has created,
  \* the unsubscribe functions it has returned and the one last called
  listeners, delivered, lastEmit, sets, disposers, disposed,
  \* ScoreSystem (gameplay/collision-system.ts); settle: the gap between
  \* score and displayScore when the score last changed, and the updates
  \* run since
  score, displayScore, multiplier, multiplierTimer, highScore, settle,
  \* history of the running session (see Observations), and the limits put
  \* on the environment (the highest wave followed, whether the player may
  \* start another session)
  obs, limits

storeVars == <<nextEntityId, entities, components, toDestroy>>

waveVars ==
  <<currentWave, enemiesAlive, waveActive, wavePauseTimer, waitingForNextWave>>

difficultyVars ==
  <<difficultyMultiplier, spawnRateMultiplier, bulletSpeedMultiplier>>

menuVars == <<titleSel, pauseSel, overSel>>

harnessVars == <<busLog, lastCall, nChanges, nPairs, dispatching>>

busVars == <<listeners, delivered, lastEmit, sets, disposers, disposed>>

scoreVars ==
  <<score, displayScore, multiplier, multiplierTimer, highScore, settle>>

effectVars == <<activeEffects>>

aiVars == <<aiStates, playerX, playerY>>

vars ==
  <<nextEntityId, entities, components, toDestroy, state, previousState,
    playerEntity, bombs, shieldHits, currentWave, enemiesAlive, waveActive,
    wavePauseTimer, waitingForNextWave, pendingSpawns, titleSel, pauseSel,
    overSel, inputState, timers, input, dt, collisions, pc, busLog, lastCall,
    dispatching, nChanges, nPairs, listeners, delivered, lastEmit, sets, disposers,
    disposed, score, displayScore,
    multiplier, multiplierTimer, highScore, settle, activeEffects, aiStates,
    playerX, playerY, difficultyMultiplier, spawnRateMultiplier,
    bulletSpeedMultiplier, obs,
    limits>>

-----------------------------------------------------------------------------
(* Bounds of the model *)

\* number of collider-bearing entities placed for the collision resolver
MaxColliders == 3

\* bullets and pick-ups created in one session of a run with pick-ups
MaxCreated == 5

\* bullets created in one session of a run of waves
MaxShots == 2

\* enemy bullets in flight at once
MaxEnemyBullets == 1

\* colliding pairs in one tick
MaxPairs == 2

\* the highest wave index followed
MaxWave == 2

\* sessions started in a run that follows restarts
MaxSessions == 2

\* enemy bullets created in a run that starts in the first gunship wave
MaxLateShots == 3

-----------------------------------------------------------------------------
(* Generic helpers *)

Range(s) == {s[i] : i \in DOMAIN s}

Max2(a, b) == IF a >= b THEN a ELSE b

Min2(a, b) == IF a <= b THEN a ELSE b

\* the members of a finite set of integers in ascending order
SetToSortedSeq(S) ==
  [i \in 1 .. Cardinality(S) |->
     CHOOSE x \in S : Cardinality({y \in S : y < x}) = i - 1]

\* a function with one key removed / restricted to a key set
Restrict(f, D) == [k \in (DOMAIN f) \cap D |-> f[k]]

-----------------------------------------------------------------------------
(* core/ecs.ts : World.  A world value is a record                          *)
(* [nextEntityId, entities, components, toDestroy]; components maps each    *)
(* component type to its Map<Entity, data>.                                 *)

ComponentTypes ==
  {"Transform", "Velocity", "Health", "Weapon", "Collider", "PowerUp",
   "Enemy", "PlayerInput", "Bullet"}

EmptyComponents == [t \in ComponentTypes |-> <<>>]

EmptyWorld ==
  [nextEntityId |-> 0, entities |-> {}, components |-> EmptyComponents,
   toDestroy |-> <<>>]

\* createEntity(): the identifier handed out is w.nextEntityId
CreateEntity(w) ==
  [w EXCEPT !.nextEntityId = @ + 1, !.entities = @ \cup {w.nextEntityId}]

DestroyEntity(w, e) == [w EXCEPT !.toDestroy = Append(@, e)]

AddComponent(w, e, type, data) ==
  [w EXCEPT !.components[type] = (e :> data) @@ @]

SetComponent(w, e, type, data) ==
  [w EXCEPT !.components[type][e] = data]

HasComponent(w, e, type) == e \in DOMAIN w.components[type]

GetComponent(w, e, type) == w.components[type][e]

\* a query satisfied by any one of the listed types
Query_AnyTag(w, types) ==
  SetToSortedSeq({e \in w.entities : \E t \in types : HasComponent(w, e, t)})

\* query(...types): Set iteration is insertion order, which is creation
\* order, which is ascending identifier order.
Query(w, types) ==
  SetToSortedSeq({e \in w.entities : \A t \in types : HasComponent(w, e, t)})

Flush_EntitiesOnly(w) ==
  [w EXCEPT !.entities = @ \ Range(w.toDestroy), !.toDestroy = <<>>]

\* flush(): entities and their components leave the store together
Flush(w) ==
  [w EXCEPT
     !.entities = @ \ Range(w.toDestroy),
     !.components =
        [t \in ComponentTypes |->
           Restrict(w.components[t], (DOMAIN w.components[t]) \ Range(w.toDestroy))],
     !.toDestroy = <<>>]

Clear(w) == EmptyWorld

-----------------------------------------------------------------------------
(* gameplay/collision-system.ts *)

GRID_CELL_SIZE == 100

\* COLLISION_PAIRS
COLLISION_PAIRS ==
  << <<"Player", "EnemyBullet">>, <<"Player", "Enemy">>,
     <<"Player", "PowerUp">>, <<"PlayerBullet", "Enemy">> >>

ShouldCollide_AnyLayers(layerA, layerB) == TRUE

ShouldCollide(layerA, layerB) ==
  \E i \in DOMAIN COLLISION_PAIRS :
     \/ (layerA = COLLISION_PAIRS[i][1] /\ layerB = COLLISION_PAIRS[i][2])
     \/ (layerA = COLLISION_PAIRS[i][2] /\ layerB = COLLISION_PAIRS[i][1])

CellOffsets_OwnCellOnly == << <<0, 0>> >>

\* for dx in -1..1, for dy in -1..1
CellOffsets ==
  << <<-1, -1>>, <<-1, 0>>, <<-1, 1>>, <<0, -1>>, <<0, 0>>, <<0, 1>>,
     <<1, -1>>, <<1, 0>>, <<1, 1>> >>

\* Math.floor(x / GRID_CELL_SIZE); \div rounds toward minus infinity
CellOf(t) == <<t.x \div GRID_CELL_SIZE, t.y \div GRID_CELL_SIZE>>

\* pairKey = a < b ? `${a}-${b}` : `${b}-${a}`
PairKey(a, b) == IF a < b THEN <<a, b>> ELSE <<b, a>>

SeenPair_Never(checked, pairKey) == FALSE

SeenPair(checked, pairKey) == pairKey \in checked

\* distSq < minDist * minDist, radii in thirds of a pixel
Overlap(ta, ca, tb, cb) ==
  LET dx == ta.x - tb.x
      dy == ta.y - tb.y
  IN 9 * (dx * dx + dy * dy) < (ca.radius + cb.radius) * (ca.radius + cb.radius)

\* The grid.push calls of the population loop in program order: entity by
\* entity of the query, and for each entity offset by offset.  The key
\* `${cx},${cy}` is the pair <<cx, cy>>.
GridInsertions(w) ==
  LET ents == Query(w, {"Transform", "Collider"})
      per == Len(CellOffsets)
  IN [n \in 1 .. (Len(ents) * per) |->
        LET e == ents[((n - 1) \div per) + 1]
            k == ((n - 1) % per) + 1
            cell == CellOf(GetComponent(w, e, "Transform"))
        IN [key |-> <<cell[1] + CellOffsets[k][1], cell[2] + CellOffsets[k][2]>>,
            e |-> e]]

\* The grid Map<string, Entity[]> as the list of its entries in insertion
\* order: a cell is created by the first push to its key, and its array
\* holds the pushed entities in push order (ascending, as the query is).
Grid(w) ==
  LET ins == GridInsertions(w)
      firsts == SetToSortedSeq(
                  {n \in DOMAIN ins : \A m \in 1 .. (n - 1) : ins[m].key # ins[n].key})
  IN [c \in DOMAIN firsts |->
        [key |-> ins[firsts[c]].key,
         ents |-> SetToSortedSeq(
                    {ins[n].e : n \in {m \in DOMAIN ins : ins[m].key = ins[firsts[c]].key}})]]

\* loop position <<cell, i, j>> u is visited before loop position t
VisitedBefore(u, t) ==
  \/ u[1] < t[1]
  \/ (u[1] = t[1] /\ u[2] < t[2])
  \/ (u[1] = t[1] /\ u[2] = t[2] /\ u[3] < t[3])

\* CollisionSystem.update: grid and pair cache are rebuilt on every call.
\* The narrow phase visits the cells in Map order and in each cell the
\* positions i < j; `checked` at a visit holds the keys of all earlier visits.
CollisionUpdate(w) ==
  LET grid == Grid(w)
      most == Len(Query(w, {"Transform", "Collider"}))
      visits == {t \in (DOMAIN grid) \X (1 .. most) \X (1 .. most) :
                   t[2] < t[3] /\ t[3] <= Len(grid[t[1]].ents)}
      A(t) == grid[t[1]].ents[t[2]]
      B(t) == grid[t[1]].ents[t[3]]
      checked(t) == {PairKey(A(u), B(u)) : u \in {v \in visits : VisitedBefore(v, t)}}
      hit(t) ==
        /\ ~SeenPair(checked(t), PairKey(A(t), B(t)))
        /\ ShouldCollide(GetComponent(w, A(t), "Collider").layer,
                         GetComponent(w, B(t), "Collider").layer)
        /\ Overlap(GetComponent(w, A(t), "Transform"), GetComponent(w, A(t), "Collider"),
                   GetComponent(w, B(t), "Transform"), GetComponent(w, B(t), "Collider"))
      hits == {t \in visits : hit(t)}
  IN [n \in 1 .. Cardinality(hits) |->
        LET t == CHOOSE t \in hits : Cardinality({u \in hits : VisitedBefore(u, t)}) = n - 1
        IN [entityA |-> A(t), entityB |-> B(t),
            layerA |-> GetComponent(w, A(t), "Collider").layer,
            layerB |-> GetComponent(w, B(t), "Collider").layer]]

-----------------------------------------------------------------------------
(* core/constants.ts *)

SCREEN_WIDTH == 800
SCREEN_HEIGHT == 600
PLAYER_START_HP == 5
PLAYER_SIZE == 32
BULLET_SIZE == 8
POWERUP_SIZE == 20
SHIELD_HITS == 3

\* Collider radii in thirds of a pixel
PlayerCollider == [radius |-> PLAYER_SIZE, layer |-> "Player"]

PlayerBulletCollider == [radius |-> (3 * BULLET_SIZE) \div 2, layer |-> "PlayerBullet"]

EnemyBulletCollider == [radius |-> (3 * BULLET_SIZE) \div 2, layer |-> "EnemyBullet"]

PowerUpCollider == [radius |-> (3 * POWERUP_SIZE) \div 2, layer |-> "PowerUp"]

EnemyCollider(size) == [radius |-> (3 * size) \div 2, layer |-> "Enemy"]

-----------------------------------------------------------------------------
(* Time.  One second is UnitsPerSecond units of model time. *)

UnitsPerSecond == 40

PLAYER_FIRE_RATE == 8

\* INVINCIBILITY_DURATION = 2.0 s, WAVE_PAUSE_DURATION = 2.0 s
INVINCIBILITY_DURATION == 2 * UnitsPerSecond

WAVE_PAUSE_DURATION == 2 * UnitsPerSecond

\* the multiplier 1.0, in hundredths
Whole == 100

DIFFICULTY_ESCALATION_INTERVAL == 5
\* 0.10 and 0.15, in hundredths
BULLET_SPEED_INCREASE == 10
SPAWN_RATE_INCREASE == 15

\* dt = Math.min((currentTime - lastTime) / 1000, 0.1): the frames of the
\* model are the longest the loop admits
FrameDt == UnitsPerSecond \div 10

\* 1 / weapon.fireRate
FireInterval == UnitsPerSecond \div PLAYER_FIRE_RATE

-----------------------------------------------------------------------------
(* The program state as one value, so that a handler is an operator from   *)
(* state to state and an emit is the composition of the subscribed         *)
(* handlers in their registration order (main.ts init).                    *)

GameStates == {"menu", "playing", "paused", "gameover"}

World ==
  [nextEntityId |-> nextEntityId, entities |-> entities,
   components |-> components, toDestroy |-> toDestroy]

Cur ==
  [w |-> World, state |-> state, previousState |-> previousState,
   playerEntity |-> playerEntity, bombs |-> bombs, shieldHits |-> shieldHits,
   currentWave |-> currentWave, enemiesAlive |-> enemiesAlive,
   waveActive |-> waveActive, wavePauseTimer |-> wavePauseTimer,
   waitingForNextWave |-> waitingForNextWave,
   difficultyMultiplier |-> difficultyMultiplier,
   spawnRateMultiplier |-> spawnRateMultiplier,
   bulletSpeedMultiplier |-> bulletSpeedMultiplier,
   pendingSpawns |-> pendingSpawns,
   titleSel |-> titleSel, pauseSel |-> pauseSel, overSel |-> overSel,
   timers |-> timers, obs |-> obs, log |-> <<>>,
   \* whether the systems of a tick are executing (gameLoop, lines 442-467)
   inTick |-> (pc = "systems")]

\* every field of the value written back
Commit(s) ==
  /\ nextEntityId' = s.w.nextEntityId
  /\ entities' = s.w.entities
  /\ components' = s.w.components
  /\ toDestroy' = s.w.toDestroy
  /\ state' = s.state
  /\ previousState' = s.previousState
  /\ playerEntity' = s.playerEntity
  /\ bombs' = s.bombs
  /\ shieldHits' = s.shieldHits
  /\ currentWave' = s.currentWave
  /\ enemiesAlive' = s.enemiesAlive
  /\ waveActive' = s.waveActive
  /\ wavePauseTimer' = s.wavePauseTimer
  /\ waitingForNextWave' = s.waitingForNextWave
  /\ difficultyMultiplier' = s.difficultyMultiplier
  /\ spawnRateMultiplier' = s.spawnRateMultiplier
  /\ bulletSpeedMultiplier' = s.bulletSpeedMultiplier
  /\ pendingSpawns' = s.pendingSpawns
  /\ titleSel' = s.titleSel
  /\ pauseSel' = s.pauseSel
  /\ overSel' = s.overSel
  /\ timers' = s.timers
  /\ obs' = s.obs

\* playerEntity: Entity | null
NoEntity == -1

\* InputManager.createEmptyState
EmptyInput ==
  [fire |-> FALSE, bomb |-> FALSE, pause |-> FALSE, confirm |-> FALSE,
   back |-> FALSE, bombJustPressed |-> FALSE, pauseJustPressed |-> FALSE,
   confirmJustPressed |-> FALSE, backJustPressed |-> FALSE]

\* Observations of the running session, kept beside the program state:
\*   flushed      identifiers removed by flush since the store was cleared
\*   sinceDamage  time played since the player's health was last reduced,
\*                counted up to INVINCIBILITY_DURATION
\*   lastGap      sinceDamage at the latest reduction of the player's health
\*   hits         player:damage events that reached applyDamage
\*   gameOvers    game:over events
\*   zeroPending  times the alive counter reached 0 in an active wave that no
\*                wave spawn has answered yet
\*   pauseTicks   time counted by the wave director since that moment
\*   created      bullets and pick-ups created since the run began
\*   lastSpawn    zeroPending, pauseTicks, the index step and the new index of
\*                the latest spawn of a next wave (index 0: none yet)
\*   session      sessions started so far
\*   clearedInTick  whether World.clear() was ever called while the systems
\*                of a tick were executing
\*   pickups      powerup:spreadshot events of the session
\*   repeats      enemy:destroyed events emitted for an enemy whose health
\*                was at or below 0 already (it had been destroyed before in
\*                the same frame)
\*   shielded     whether a Shield pick-up was applied in the session
\*   absorbed     player:damage events taken by the shield since the latest
\*                Shield pick-up
\*   ticks        ticks of the session in which the AI records were followed
\*   updates      for every enemy of the session, the AI updates it has gone
\*                through
\*   fresh        while the session is paused or has just left the pause:
\*                whether a pause, back or confirm control went down, or a
\*                menu item was clicked, after the press that paused it
\*   lastHit      the latest PlayerBullet-Enemy pair of the tick and what
\*                processing it did
\*   window       the latest pair of the tick with the player that was
\*                processed while the player was invincible: the other layer,
\*                the bullet of the pair, the entities the processing marked
\*                for destruction, whether player:damage was emitted and
\*                whether a component value changed
\*   order        where the store is followed on its own: the identifiers
\*                created and not yet flushed or cleared, as they were created
\*   sinceShot    where the cooldown is followed: time played since the
\*                weapon of the session last fired, counted up to LongAgo
\*   spawned      where the waves are followed: for every behavior id, the
\*                units of it that the latest wave start of the session
\*                spawned
\* no PlayerBullet-Enemy pair yet
NoHit == [bullet |-> -1]

NoPair ==
  [pair |-> "none", bullet |-> -1, marked |-> {}, emitted |-> FALSE,
   changed |-> FALSE]

\* no wave has started in the session
NoUnits == [b \in 0 .. 5 |-> 0]

\* the weapon of the session has not fired, or fired long ago
LongAgo == 2 * FireInterval

NoSpawn == [pending |-> 1, waited |-> WAVE_PAUSE_DURATION, step |-> 1, wave |-> 0]

FreshObs ==
  [flushed |-> {}, sinceDamage |-> INVINCIBILITY_DURATION,
   lastGap |-> INVINCIBILITY_DURATION, hits |-> 0, gameOvers |-> 0,
   zeroPending |-> 0, pauseTicks |-> 0, created |-> 0, lastSpawn |-> NoSpawn,
   session |-> 0, clearedInTick |-> FALSE, pickups |-> 0,
   repeats |-> 0, shielded |-> FALSE, absorbed |-> 0, ticks |-> 0,
   updates |-> <<>>, window |-> NoPair, lastHit |-> NoHit, fresh |-> FALSE,
   order |-> <<>>, sinceShot |-> LongAgo, spawned |-> NoUnits]

\* the multipliers after construction (field initialisers 1.0)
InitDifficulty ==
  /\ difficultyMultiplier = Whole
  /\ spawnRateMultiplier = Whole
  /\ bulletSpeedMultiplier = Whole

\* the fields of EnemyAISystem after construction
InitAISystem ==
  /\ aiStates = <<>>
  /\ playerX = SCREEN_WIDTH \div 2
  /\ playerY = 500

\* the fields after construction (field initialisers of the classes, main.ts)
InitProgram ==
  /\ nextEntityId = 0 /\ entities = {} /\ components = EmptyComponents
  /\ toDestroy = <<>>
  /\ state = "menu" /\ previousState = "menu"
  /\ playerEntity = NoEntity /\ bombs = 0 /\ shieldHits = 0
  /\ currentWave = 0 /\ enemiesAlive = 0 /\ waveActive = FALSE
  /\ wavePauseTimer = 0 /\ waitingForNextWave = FALSE
  /\ pendingSpawns = <<>> /\ activeEffects = <<>> /\ InitAISystem
  /\ InitDifficulty
  /\ titleSel = 0 /\ pauseSel = 0 /\ overSel = 0
  /\ inputState = EmptyInput /\ timers = 0
  /\ input = EmptyInput /\ dt = 0 /\ collisions = <<>> /\ pc = "idle"
  /\ obs = FreshObs

\* the subjects of the bus, of the callbacks and of the data followed
Events == {"x", "y"}

\* new Map(): no event has a set of callbacks.  The map is kept as a
\* function on Events whose value for an event without a set is empty: on
\* creates a set only to add to it, and the returned unsubscribe function
\* deletes a set that has become empty.
NoListeners == [e \in Events |-> <<>>]

\* the last call was not a call of emit
NoEmit == [event |-> "none", data |-> 0, before |-> NoListeners]

\* no unsubscribe function has been called since the last other call
NoDisposal == [set |-> 0]

\* the event bus and the score system after construction
InitBus ==
  /\ listeners = NoListeners
  /\ delivered = <<>>
  /\ lastEmit = NoEmit
  /\ sets = <<>>
  /\ disposers = {}
  /\ disposed = NoDisposal

InitScore ==
  /\ score = 0 /\ displayScore = 0
  /\ multiplier = 1 /\ multiplierTimer = 0
  /\ highScore = 0
  /\ settle = [gap |-> 0, ticks |-> 0]

\* no call of emit is in progress
Idle == [stack |-> <<>>, steps |-> 0]

InitHarness ==
  /\ busLog = <<>>
  /\ dispatching = Idle
  /\ lastCall = [request |-> "none", from |-> "menu", prev |-> "menu"]
  /\ nChanges = 0 /\ nPairs = 0
  /\ InitBus /\ InitScore

-----------------------------------------------------------------------------
(* gameplay/game-state.ts : GameStateMachine, and the state:change          *)
(* subscriber of ui/ui-manager.ts                                           *)

Publish(s, ev) == [s EXCEPT !.log = Append(@, ev)]

\* UIManager.showScreen(to): PauseMenu.show() selects its first item
ShowScreen(s, to) == IF to = "paused" THEN [s EXCEPT !.pauseSel = 0] ELSE s

Transition_NoGuard(s, newState) ==
  LET s1 == [s EXCEPT !.previousState = s.state, !.state = newState]
      s2 == ShowScreen(
              Publish(s1, [name |-> "state:change", from |-> s1.previousState,
                           to |-> s1.state]),
              s1.state)
  IN Publish(s2, [name |-> <<"state:", newState>>])

Transition(s, newState) ==
  IF s.state = newState THEN s
  ELSE LET s1 == [s EXCEPT !.previousState = s.state, !.state = newState]
           s2 == ShowScreen(
                   Publish(s1, [name |-> "state:change", from |-> s1.previousState,
                                to |-> s1.state]),
                   s1.state)
       IN Publish(s2, [name |-> <<"state:", newState>>])

\* the subscribers of GameStateMachine.init
StateOnInputPause(s) ==
  IF s.state = "playing" THEN Transition(s, "paused")
  ELSE IF s.state = "paused" THEN Transition(s, "playing")
  ELSE s

StateOnGameStart(s) == Transition(s, "playing")

StateOnGameOver(s) == Transition(s, "gameover")

StateOnGameMenu(s) == Transition(s, "menu")

StateOnGameResume(s) ==
  IF s.state = "paused" THEN Transition(s, "playing") ELSE s

-----------------------------------------------------------------------------
(* The state machine on its own: transition called with any state, and     *)
(* the five events it subscribes to published in any order.                *)

\* number of state changes followed
MaxChanges == 5

PairsIn(log) == Cardinality({i \in DOMAIN log : log[i].name = "state:change"})

\* a handler of the state machine has run from Cur to s; req is the argument
\* it passed to transition, "none" when it did not call it
HarnessCommit(s, req) ==
  /\ Commit(s)
  /\ busLog' = s.log
  /\ lastCall' = [request |-> req, from |-> state, prev |-> previousState]
  /\ nChanges' = nChanges + (IF s.state # state THEN 1 ELSE 0)
  /\ nPairs' = nPairs + PairsIn(s.log)
  /\ UNCHANGED <<inputState, input, dt, collisions, pc, busVars, scoreVars, effectVars, aiVars, limits>>
  /\ UNCHANGED dispatching

TransitionCall ==
  /\ nChanges < MaxChanges
  /\ \E newState \in GameStates : HarnessCommit(Transition(Cur, newState), newState)

PublishInputPause ==
  /\ nChanges < MaxChanges
  /\ HarnessCommit(StateOnInputPause(Cur),
       IF state = "playing" THEN "paused"
       ELSE IF state = "paused" THEN "playing" ELSE "none")

PublishGameStart ==
  /\ nChanges < MaxChanges
  /\ HarnessCommit(StateOnGameStart(Cur), "playing")

PublishGameOver ==
  /\ nChanges < MaxChanges
  /\ HarnessCommit(StateOnGameOver(Cur), "gameover")

PublishGameMenu ==
  /\ nChanges < MaxChanges
  /\ HarnessCommit(StateOnGameMenu(Cur), "menu")

PublishGameResume ==
  /\ nChanges < MaxChanges
  /\ HarnessCommit(StateOnGameResume(Cur), IF state = "paused" THEN "playing" ELSE "none")

InitState ==
  /\ InitProgram /\ InitHarness
  /\ limits = [waveCap |-> 0, sessions |-> MaxSessions, harm |-> FALSE,
               created |-> 0, shots |-> 0, controls |-> {}, drops |-> {},
               cull |-> FALSE]

NextState ==
  \/ TransitionCall
  \/ PublishInputPause
  \/ PublishGameStart
  \/ PublishGameOver
  \/ PublishGameMenu
  \/ PublishGameResume

SpecState == InitState /\ [][NextState]_vars

-----------------------------------------------------------------------------
(* core/event-bus.ts : EventBus on its own.  The program subscribes with   *)
(* on, unsubscribes with the function on returns and publishes with emit;  *)
(* no callback of the program subscribes or unsubscribes while it runs,    *)
(* but callbacks do publish further events (the player:damage subscriber   *)
(* publishes game:over).                                                   *)

\* number of callbacks followed
MaxCallbacks == 3

Callbacks == 1 .. MaxCallbacks

\* number of Set objects followed
MaxSets == 2

\* the callback that, run for "x", publishes "y" with the data it received
Relay == 1

Payloads == {1, 2}

\* on(event, callback): Set.add appends, or keeps a callback where it is
BusOn(ls, event, cb) ==
  IF cb \in Range(ls[event]) THEN ls ELSE [ls EXCEPT ![event] = Append(@, cb)]

\* the function returned by on: callbacks.delete(callback)
BusUnsubscribe(ls, event, cb) ==
  [ls EXCEPT ![event] = SelectSeq(@, LAMBDA c : c # cb)]

Subscribed_AnyEvent(ls, event) == ls["x"] \o ls["y"]

\* this.listeners.get(event), in the iteration order of the Set
Subscribed(ls, event) == ls[event]

\* emit: for (const callback of callbacks) callback(data), from the i-th
\* callback on; depth 0 is the call followed, depth 1 an emit made by a
\* callback while it runs
RECURSIVE InvokeFrom(_, _, _, _, _)
InvokeFrom(ls, event, data, i, depth) ==
  LET cbs == Subscribed(ls, event)
  IN IF i > Len(cbs) THEN <<>>
     ELSE <<[callback |-> cbs[i], event |-> event, data |-> data,
             depth |-> depth]>>
          \o (IF cbs[i] = Relay /\ event = "x"
              THEN InvokeFrom(ls, "y", data, 1, depth + 1) ELSE <<>>)
          \o InvokeFrom(ls, event, data, i + 1, depth)

BusEmit(ls, event, data) == InvokeFrom(ls, event, data, 1, 0)

BusKeeps ==
  UNCHANGED <<storeVars, state, previousState, playerEntity, bombs, shieldHits,
              waveVars, difficultyVars, pendingSpawns, menuVars, inputState, timers, input, dt,
              collisions, pc, harnessVars, scoreVars, effectVars, aiVars, obs,
              limits>>

\* the bus as its methods see it: the map, the Set objects created so far
\* (the map holds at most one per event; members are the callbacks in it)
\* and the unsubscribe functions returned so far, each closing over the Set
\* object it was made for and its callback
Bus == [listeners |-> listeners, sets |-> sets, disposers |-> disposers]

\* this.listeners.get(event) as an object: the number of the Set the map
\* holds for the event, 0 when this.listeners.has(event) is false
HeldSet(ss, event) ==
  IF \E i \in DOMAIN ss : ss[i].event = event /\ ss[i].held
  THEN CHOOSE i \in DOMAIN ss : ss[i].event = event /\ ss[i].held
  ELSE 0

\* this.listeners.delete(event): the map lets go of the Set object, which
\* keeps its members
MapDelete(b, event) ==
  LET ss == b.sets
  IN [b EXCEPT !.listeners[event] = <<>>,
               !.sets = [i \in DOMAIN ss |->
                           IF ss[i].event = event
                           THEN [ss[i] EXCEPT !.held = FALSE] ELSE ss[i]]]

\* on(event, callback): a new Set when the map has none for the event, the
\* callback added to the Set of the map, and the unsubscribe function
EventBusOn(b, event, cb) ==
  LET made == IF HeldSet(b.sets, event) = 0
              THEN Append(b.sets, [event |-> event, held |-> TRUE,
                                   members |-> {}])
              ELSE b.sets
      callbacks == HeldSet(made, event)
  IN [b EXCEPT !.listeners = BusOn(@, event, cb),
               !.sets = [made EXCEPT ![callbacks].members = @ \cup {cb}],
               !.disposers = @ \cup {[set |-> callbacks, callback |-> cb]}]

\* callbacks.delete(callback) on a Set object, seen through the map when the
\* map holds it
SetDelete(b, set, cb) ==
  LET event == b.sets[set].event
  IN [b EXCEPT !.sets[set].members = @ \ {cb},
               !.listeners[event] =
                  IF b.sets[set].held THEN BusUnsubscribe(b.listeners, event, cb)[event]
                  ELSE @]

\* the function returned by on: callbacks.delete(callback), then
\* if (callbacks.size === 0) this.listeners.delete(event), where callbacks
\* is the Set object of the time of the call of on
Disposer(b, d) ==
  LET b1 == SetDelete(b, d.set, d.callback)
  IN IF b1.sets[d.set].members = {}
     THEN MapDelete(b1, b1.sets[d.set].event) ELSE b1

\* off(event, callback): this.listeners.get(event)?.delete(callback); the
\* Set stays in the map when it becomes empty
EventBusOff(b, event, cb) ==
  IF HeldSet(b.sets, event) = 0 THEN b
  ELSE SetDelete(b, HeldSet(b.sets, event), cb)

\* off(event): this.listeners.delete(event)
EventBusOffAll(b, event) == MapDelete(b, event)

\* clear(): this.listeners.clear()
RECURSIVE EventBusClear(_, _)
EventBusClear(b, events) ==
  IF events = {} THEN b
  ELSE LET event == CHOOSE e \in events : TRUE
       IN EventBusClear(MapDelete(b, event), events \ {event})

\* a call other than emit invokes no callback
NothingDelivered ==
  /\ delivered' = <<>>
  /\ lastEmit' = NoEmit

BusCommit(b) ==
  /\ listeners' = b.listeners
  /\ sets' = b.sets
  /\ disposers' = b.disposers

On ==
  /\ \E event \in Events : \E cb \in Callbacks :
        \* the relay is a subscriber of "x" only
        /\ cb = Relay => event = "x"
        /\ \E b \in {EventBusOn(Bus, event, cb)} :
              /\ Len(b.sets) <= limits.sets
              /\ BusCommit(b)
  /\ disposed' = NoDisposal
  /\ NothingDelivered
  /\ BusKeeps

\* a call of any unsubscribe function returned so far, called before or not
Unsubscribe ==
  /\ \E d \in disposers :
        /\ BusCommit(Disposer(Bus, d))
        /\ disposed' = [set |-> d.set, event |-> sets[d.set].event,
                        callback |-> d.callback, held |-> sets[d.set].held,
                        before |-> listeners]
  /\ NothingDelivered
  /\ BusKeeps

Off ==
  /\ \E event \in Events : \E cb \in Callbacks :
        BusCommit(EventBusOff(Bus, event, cb))
  /\ disposed' = NoDisposal
  /\ NothingDelivered
  /\ BusKeeps

OffAll ==
  /\ \E event \in Events : BusCommit(EventBusOffAll(Bus, event))
  /\ disposed' = NoDisposal
  /\ NothingDelivered
  /\ BusKeeps

ClearBus ==
  /\ BusCommit(EventBusClear(Bus, Events))
  /\ disposed' = NoDisposal
  /\ NothingDelivered
  /\ BusKeeps

Emit ==
  /\ \E event \in Events : \E data \in Payloads :
        /\ delivered' = BusEmit(listeners, event, data)
        /\ lastEmit' = [event |-> event, data |-> data, before |-> listeners]
  /\ UNCHANGED <<listeners, sets, disposers, disposed>>
  /\ BusKeeps

InitBusAlone ==
  /\ InitProgram /\ InitHarness
  /\ limits = [waveCap |-> 0, sessions |-> 0, harm |-> FALSE,
               created |-> 0, shots |-> 0, controls |-> {}, drops |-> {},
               cull |-> FALSE, sets |-> MaxSets]

NextBus == On \/ Unsubscribe \/ Off \/ OffAll \/ ClearBus \/ Emit

SpecBus == InitBusAlone /\ [][NextBus]_vars

-----------------------------------------------------------------------------
(* Entities.  The player and the enemies are created where the source puts *)
(* them; a bullet or a pick-up is created Somewhere, and which colliders   *)
(* overlap is chosen by the collision step.  Of                            *)
(* a player bullet the Transform keeps the volley it left with (the first  *)
(* identifier of that fireWeapon call): the bullets of one volley start at *)
(* one point, those of two volleys are at least MinBulletGap apart.        *)

Somewhere == [x |-> 0, y |-> 0]

PLAYER_SPEED == 400
PLAYER_BULLET_SPEED == 800

\* pixels between two bullets fired 1 / fireRate apart by a player who
\* follows them at full speed
MinBulletGap == (PLAYER_BULLET_SPEED - PLAYER_SPEED) \div PLAYER_FIRE_RATE

Moving == [vx |-> 0, vy |-> 0]

\* components of several new entities at once: ids are the identifiers the
\* createEntity calls hand out, data[e] the value added for e
AddComponents(w, ids, type, data) ==
  [w EXCEPT !.components[type] =
     [e \in (DOMAIN w.components[type]) \cup ids |->
        IF e \in ids THEN data[e] ELSE w.components[type][e]]]

CreateEntities(w, n) ==
  [w EXCEPT !.nextEntityId = @ + n,
            !.entities = @ \cup (w.nextEntityId .. (w.nextEntityId + n - 1))]

\* main.ts createPlayer
CreatePlayer(s) ==
  LET e == s.w.nextEntityId
      w1 == CreateEntity(s.w)
      w2 == AddComponent(w1, e, "Transform",
              [x |-> SCREEN_WIDTH \div 2, y |-> SCREEN_HEIGHT - 80])
      w3 == AddComponent(w2, e, "Velocity", Moving)
      w4 == AddComponent(w3, e, "Health",
              [current |-> PLAYER_START_HP, max |-> PLAYER_START_HP,
               invincible |-> FALSE, invincibleTimer |-> 0])
      w5 == AddComponent(w4, e, "Weapon",
              [type |-> 0, fireRate |-> PLAYER_FIRE_RATE, cooldown |-> 0, level |-> 0])
      w6 == AddComponent(w5, e, "Collider", PlayerCollider)
      w7 == AddComponent(w6, e, "PlayerInput", [firing |-> FALSE])
  IN [s EXCEPT !.w = w7, !.playerEntity = e]

-----------------------------------------------------------------------------
(* gameplay/damage-system.ts : WaveSystem *)

\* BEHAVIOR ids of EnemyAISystem
SWARM_DRONE == 0
SWARM_STINGER == 1
SWARM_HIVE_MOTHER == 2
ARMADA_SENTINEL == 3
ARMADA_GUNSHIP == 4
ARMADA_DREADNOUGHT == 5

ENEMY_BASE_SIZE == 28
MINIBOSS_SIZE == 50
MINIBOSS_INTERVAL == 10
SCORE_BASIC_ENEMY == 100
SCORE_TOUGH_ENEMY == 250
SCORE_MINIBOSS == 1000

\* Faction
Swarm == 0
Armada == 1

EnemySpawnConfig(faction, behaviorId, hp, size, scoreValue) ==
  [faction |-> faction, behaviorId |-> behaviorId, hp |-> hp, size |-> size,
   scoreValue |-> scoreValue]

\* count units of one group, each at formationFn(i, count) for i from 0:
\* x = SCREEN_WIDTH * left / 100 + (SCREEN_WIDTH * span / 100 / count) * i,
\* y = top - i * rise
Formation(cfg, count, left, span, top, rise) ==
  [n \in 1 .. count |->
     [faction |-> cfg.faction, behaviorId |-> cfg.behaviorId, hp |-> cfg.hp,
      size |-> cfg.size, scoreValue |-> cfg.scoreValue,
      x |-> (SCREEN_WIDTH * left) \div 100
              + (SCREEN_WIDTH * span * (n - 1)) \div (100 * count),
      y |-> top - (n - 1) * rise]]

\* a flag raised in every fifth wave
IsBossWave_EveryFifth(wave) == wave % 5 = 0

\* generateWaveConfig: isBossWave
IsBossWave(wave) == wave % MINIBOSS_INTERVAL = 0

\* a roster whose gunships are not capped
WaveRoster_GunshipsUncapped(wave) ==
  Formation(EnemySpawnConfig(Swarm, SWARM_DRONE, 1, ENEMY_BASE_SIZE, SCORE_BASIC_ENEMY),
            Min2(3 + ((wave * 8) \div 10), 12), 20, 60, -40, 30)
  \o (IF wave >= 3
      THEN Formation(EnemySpawnConfig(Swarm, SWARM_STINGER, 1, ENEMY_BASE_SIZE - 4, SCORE_BASIC_ENEMY),
                     Min2(((wave - 2) * 5) \div 10, 5), 15, 70, -80, 20)
      ELSE <<>>)
  \o (IF wave >= 6
      THEN Formation(EnemySpawnConfig(Armada, ARMADA_SENTINEL, 3, ENEMY_BASE_SIZE + 4, SCORE_TOUGH_ENEMY),
                     Min2(((wave - 5) * 6) \div 10, 6), 25, 50, -30, 40)
      ELSE <<>>)
  \o (IF wave >= 8
      THEN Formation(EnemySpawnConfig(Armada, ARMADA_GUNSHIP, 2, ENEMY_BASE_SIZE + 2, SCORE_TOUGH_ENEMY),
                     ((wave - 7) * 4) \div 10, 30, 40, -60, 35)
      ELSE <<>>)
  \o (IF IsBossWave(wave)
      THEN IF wave <= 15
           THEN Formation(EnemySpawnConfig(Swarm, SWARM_HIVE_MOTHER, 15, MINIBOSS_SIZE, SCORE_MINIBOSS),
                          1, 50, 0, -60, 0)
           ELSE Formation(EnemySpawnConfig(Armada, ARMADA_DREADNOUGHT, 25, MINIBOSS_SIZE + 10, SCORE_MINIBOSS),
                          1, 50, 0, -80, 0)
      ELSE <<>>)

\* generateWaveConfig(wave), each group unfolded count times;
\* Math.floor(wave * 0.8) is (wave * 8) \div 10, and so on
WaveRoster(wave) ==
  Formation(EnemySpawnConfig(Swarm, SWARM_DRONE, 1, ENEMY_BASE_SIZE, SCORE_BASIC_ENEMY),
            Min2(3 + ((wave * 8) \div 10), 12), 20, 60, -40, 30)
  \o (IF wave >= 3
      THEN Formation(EnemySpawnConfig(Swarm, SWARM_STINGER, 1, ENEMY_BASE_SIZE - 4, SCORE_BASIC_ENEMY),
                     Min2(((wave - 2) * 5) \div 10, 5), 15, 70, -80, 20)
      ELSE <<>>)
  \o (IF wave >= 6
      THEN Formation(EnemySpawnConfig(Armada, ARMADA_SENTINEL, 3, ENEMY_BASE_SIZE + 4, SCORE_TOUGH_ENEMY),
                     Min2(((wave - 5) * 6) \div 10, 6), 25, 50, -30, 40)
      ELSE <<>>)
  \o (IF wave >= 8
      THEN Formation(EnemySpawnConfig(Armada, ARMADA_GUNSHIP, 2, ENEMY_BASE_SIZE + 2, SCORE_TOUGH_ENEMY),
                     Min2(((wave - 7) * 4) \div 10, 4), 30, 40, -60, 35)
      ELSE <<>>)
  \o (IF IsBossWave(wave)
      THEN IF wave <= 15
           THEN Formation(EnemySpawnConfig(Swarm, SWARM_HIVE_MOTHER, 15, MINIBOSS_SIZE, SCORE_MINIBOSS),
                          1, 50, 0, -60, 0)
           ELSE Formation(EnemySpawnConfig(Armada, ARMADA_DREADNOUGHT, 25, MINIBOSS_SIZE + 10, SCORE_MINIBOSS),
                          1, 50, 0, -80, 0)
      ELSE <<>>)

\* spawnWave and spawnEnemy: the alive counter restarts at 0 and counts the
\* units spawned now
SpawnWave(s, roster) ==
  LET base == s.w.nextEntityId
      ids == base .. (base + Len(roster) - 1)
      cfg(e) == roster[e - base + 1]
      w1 == CreateEntities(s.w, Len(roster))
      w2 == AddComponents(w1, ids, "Transform",
              [e \in ids |-> [x |-> cfg(e).x, y |-> cfg(e).y]])
      w3 == AddComponents(w2, ids, "Velocity", [e \in ids |-> Moving])
      w4 == AddComponents(w3, ids, "Health",
              [e \in ids |-> [current |-> cfg(e).hp, max |-> cfg(e).hp,
                              invincible |-> FALSE, invincibleTimer |-> 0]])
      w5 == AddComponents(w4, ids, "Collider", [e \in ids |-> EnemyCollider(cfg(e).size)])
      w6 == AddComponents(w5, ids, "Enemy",
              [e \in ids |-> [faction |-> cfg(e).faction,
                              behaviorId |-> cfg(e).behaviorId,
                              scoreValue |-> cfg(e).scoreValue]])
  IN [s EXCEPT !.w = w6, !.enemiesAlive = Len(roster)]

\* the difficulty:update subscriber of main.ts
OnDifficultyUpdate(s, data) ==
  [s EXCEPT !.bulletSpeedMultiplier = data.bulletSpeedMult]

\* the multipliers after the escalations of the waves up to wave
Escalations(wave) == (Max2(wave, 1) - 1) \div DIFFICULTY_ESCALATION_INTERVAL

\* a wave start that escalates the multipliers in every wave
StartNextWave_EscalatesAlways(s) ==
  LET s1 == [s EXCEPT !.currentWave = @ + 1, !.waveActive = TRUE]
      s2 == IF s1.currentWave > 1
            THEN [s1 EXCEPT !.difficultyMultiplier = @ + BULLET_SPEED_INCREASE,
                            !.spawnRateMultiplier = @ + SPAWN_RATE_INCREASE]
            ELSE s1
      s3 == Publish(s2, [name |-> "wave:start", wave |-> s2.currentWave])
      update == [name |-> "difficulty:update",
                 bulletSpeedMult |-> s3.difficultyMultiplier]
      s4 == OnDifficultyUpdate(Publish(s3, update), update)
      s5 == SpawnWave(s4, WaveRoster(s4.currentWave))
  IN IF IsBossWave(s5.currentWave)
     THEN Publish(s5, [name |-> "boss:warning"])
     ELSE s5

\* startNextWave; the last statement of spawnWave, which emits boss:warning
\* when the configuration is flagged, is placed here
StartNextWave(s) ==
  LET s1 == [s EXCEPT !.currentWave = @ + 1, !.waveActive = TRUE]
      s2 == IF /\ s1.currentWave > 1
               /\ (s1.currentWave - 1) % DIFFICULTY_ESCALATION_INTERVAL = 0
            THEN [s1 EXCEPT !.difficultyMultiplier = @ + BULLET_SPEED_INCREASE,
                            !.spawnRateMultiplier = @ + SPAWN_RATE_INCREASE]
            ELSE s1
      s3 == Publish(s2, [name |-> "wave:start", wave |-> s2.currentWave])
      update == [name |-> "difficulty:update",
                 bulletSpeedMult |-> s3.difficultyMultiplier]
      s4 == OnDifficultyUpdate(Publish(s3, update), update)
      s5 == SpawnWave(s4, WaveRoster(s4.currentWave))
  IN IF IsBossWave(s5.currentWave)
     THEN Publish(s5, [name |-> "boss:warning"])
     ELSE s5

StartFirstWave(s) ==
  StartNextWave([s EXCEPT !.currentWave = 0, !.difficultyMultiplier = Whole,
                          !.spawnRateMultiplier = Whole])

\* WaveSystem.reset leaves wavePauseTimer alone
WaveReset(s) ==
  [s EXCEPT !.currentWave = 0, !.enemiesAlive = 0, !.waveActive = FALSE,
            !.waitingForNextWave = FALSE, !.difficultyMultiplier = Whole,
            !.spawnRateMultiplier = Whole]

\* the enemy:destroyed subscriber of WaveSystem.init
WaveOnEnemyDestroyed(s) ==
  LET s1 == [s EXCEPT !.enemiesAlive = @ - 1]
  IN IF s1.enemiesAlive <= 0 /\ s1.waveActive
     THEN [s1 EXCEPT !.waveActive = FALSE, !.waitingForNextWave = TRUE,
                     !.wavePauseTimer = WAVE_PAUSE_DURATION,
                     !.obs.zeroPending = @ + 1, !.obs.pauseTicks = 0]
     ELSE s1

\* the spawn of a next wave recorded in the observations
RecordSpawn(before, after) ==
  [after EXCEPT
     !.obs.lastSpawn = [pending |-> before.obs.zeroPending,
                        waited |-> before.obs.pauseTicks,
                        step |-> after.currentWave - before.currentWave,
                        wave |-> after.currentWave],
     !.obs.zeroPending = 0]

WaveUpdate_KeepsWaiting(s, d) ==
  IF s.waitingForNextWave
  THEN LET s1 == [s EXCEPT !.wavePauseTimer = @ - d]
       IN IF s1.wavePauseTimer <= 0 THEN StartNextWave(s1) ELSE s1
  ELSE s

\* WaveSystem.update
WaveUpdate(s, d) ==
  IF s.waitingForNextWave
  THEN LET s1 == [s EXCEPT !.wavePauseTimer = @ - d]
       IN IF s1.wavePauseTimer <= 0
          THEN StartNextWave([s1 EXCEPT !.waitingForNextWave = FALSE])
          ELSE s1
  ELSE s

-----------------------------------------------------------------------------
(* main.ts : session start and the game:* subscribers, each after the      *)
(* GameStateMachine subscriber registered before it                        *)

PowerUpReset(s) == [s EXCEPT !.pendingSpawns = <<>>]

\* world.clear() as main.ts calls it
WorldClear(s) ==
  [s EXCEPT !.w = Clear(s.w), !.obs.clearedInTick = @ \/ s.inTick]

StartGame(s) ==
  LET s0 == WorldClear(s)
      s1 == [s0 EXCEPT !.obs = [FreshObs EXCEPT
                                  !.session = s.obs.session + 1,
                                  !.clearedInTick = s0.obs.clearedInTick]]
      s2 == PowerUpReset(WaveReset(s1))
      s3 == [s2 EXCEPT !.bombs = 3, !.shieldHits = 0]
  IN StartFirstWave(CreatePlayer(s3))

OnGameStart(s) == StartGame(StateOnGameStart(s))

OnGameOver(s) == [StateOnGameOver(s) EXCEPT !.obs.gameOvers = @ + 1]

OnGameMenu(s) ==
  LET s1 == StateOnGameMenu(s)
  IN [WorldClear(s1) EXCEPT !.obs.flushed = {}]

OnGameResume(s) == StateOnGameResume(s)

OnInputPause(s) == StateOnInputPause(s)

-----------------------------------------------------------------------------
(* gameplay/player-system.ts : PlayerMovementSystem (steering left out) *)

PlayerUpdate_ClearsAtOnce(s, d) ==
  IF s.playerEntity = NoEntity \/ ~HasComponent(s.w, s.playerEntity, "Transform")
  THEN s
  ELSE IF HasComponent(s.w, s.playerEntity, "Health")
            /\ GetComponent(s.w, s.playerEntity, "Health").invincible
       THEN [s EXCEPT !.w = SetComponent(s.w, s.playerEntity, "Health",
                      [GetComponent(s.w, s.playerEntity, "Health") EXCEPT
                         !.invincible = FALSE, !.invincibleTimer = 0])]
       ELSE s

PlayerUpdate(s, d) ==
  IF s.playerEntity = NoEntity \/ ~HasComponent(s.w, s.playerEntity, "Transform")
  THEN s
  ELSE IF HasComponent(s.w, s.playerEntity, "Health")
            /\ GetComponent(s.w, s.playerEntity, "Health").invincible
       THEN LET h == GetComponent(s.w, s.playerEntity, "Health")
                h1 == [h EXCEPT !.invincibleTimer = @ - d]
                h2 == IF h1.invincibleTimer <= 0
                      THEN [h1 EXCEPT !.invincible = FALSE, !.invincibleTimer = 0]
                      ELSE h1
            IN [s EXCEPT !.w = SetComponent(s.w, s.playerEntity, "Health", h2)]
       ELSE s

ApplyDamage_DeadBelowZero(s, amount) ==
  IF s.playerEntity = NoEntity \/ ~HasComponent(s.w, s.playerEntity, "Health")
  THEN [s |-> s, dead |-> FALSE]
  ELSE LET h == GetComponent(s.w, s.playerEntity, "Health")
       IN IF h.invincible THEN [s |-> s, dead |-> FALSE]
          ELSE LET h1 == [h EXCEPT !.current = @ - amount, !.invincible = TRUE,
                                   !.invincibleTimer = INVINCIBILITY_DURATION]
               IN [s |-> [s EXCEPT
                            !.w = SetComponent(s.w, s.playerEntity, "Health", h1),
                            !.obs.lastGap = s.obs.sinceDamage,
                            !.obs.sinceDamage = 0],
                   dead |-> h1.current < 0]

\* applyDamage: the returned flag tells whether the player is dead
ApplyDamage(s, amount) ==
  IF s.playerEntity = NoEntity \/ ~HasComponent(s.w, s.playerEntity, "Health")
  THEN [s |-> s, dead |-> FALSE]
  ELSE LET h == GetComponent(s.w, s.playerEntity, "Health")
       IN IF h.invincible THEN [s |-> s, dead |-> FALSE]
          ELSE LET h1 == [h EXCEPT !.current = @ - amount, !.invincible = TRUE,
                                   !.invincibleTimer = INVINCIBILITY_DURATION]
               IN [s |-> [s EXCEPT
                            !.w = SetComponent(s.w, s.playerEntity, "Health", h1),
                            !.obs.lastGap = s.obs.sinceDamage,
                            !.obs.sinceDamage = 0],
                   dead |-> h1.current <= 0]

\* UIManager.showGameOver: GameOverScreen.showWithStats selects the first item
ShowGameOver(s) == [s EXCEPT !.overSel = 0]

\* a player:damage subscriber that returns to the menu itself on death
OnPlayerDamage_StraightToMenu(s) ==
  IF s.shieldHits > 0 THEN [s EXCEPT !.shieldHits = @ - 1]
  ELSE LET r == ApplyDamage([s EXCEPT !.obs.hits = @ + 1], 1)
       IN IF r.dead THEN OnGameMenu(ShowGameOver(OnGameOver(r.s))) ELSE r.s

\* the player:damage subscriber of main.ts
\* a shield that is used up without protecting
OnPlayerDamage_ShieldLeaks(s) ==
  LET s1 == IF s.shieldHits > 0
            THEN [s EXCEPT !.shieldHits = @ - 1, !.obs.absorbed = @ + 1]
            ELSE s
      r == ApplyDamage([s1 EXCEPT !.obs.hits = @ + 1], 1)
  IN IF r.dead THEN ShowGameOver(OnGameOver(r.s)) ELSE r.s

OnPlayerDamage(s) ==
  IF s.shieldHits > 0
  THEN [s EXCEPT !.shieldHits = @ - 1, !.obs.absorbed = @ + 1]
  ELSE LET r == ApplyDamage([s EXCEPT !.obs.hits = @ + 1], 1)
       IN IF r.dead THEN ShowGameOver(OnGameOver(r.s)) ELSE r.s

-----------------------------------------------------------------------------
(* WeaponSystem (src/unnamed/part_004) *)

SPREAD7 == 3

\* getFireAngles, in thousandths of a radian
\* a fan whose widest tier leans to one side
GetFireAngles_Lopsided(type) ==
  CASE type = 0 -> <<0>>
    [] type = 1 -> <<-200, 0, 200>>
    [] type = 2 -> <<-350, -175, 0, 175, 350>>
    [] type = 3 -> <<-450, -300, -150, 0, 150, 300, 400>>
    [] OTHER -> <<0>>

\* the angles in thousandths of a radian
GetFireAngles(type) ==
  CASE type = 0 -> <<0>>
    [] type = 1 -> <<-200, 0, 200>>
    [] type = 2 -> <<-350, -175, 0, 175, 350>>
    [] type = 3 -> <<-450, -300, -150, 0, 150, 300, 450>>
    [] OTHER -> <<0>>

FireWeapon(s, weapon) ==
  LET angles == GetFireAngles(weapon.type)
      n == Len(angles)
      ids == s.w.nextEntityId .. (s.w.nextEntityId + n - 1)
      w1 == CreateEntities(s.w, n)
      w2 == AddComponents(w1, ids, "Transform",
              [e \in ids |-> [x |-> 0, y |-> 0, volley |-> s.w.nextEntityId,
                              rotation |-> angles[e - s.w.nextEntityId + 1]]])
      w3 == AddComponents(w2, ids, "Velocity", [e \in ids |-> Moving])
      w4 == AddComponents(w3, ids, "Collider", [e \in ids |-> PlayerBulletCollider])
      w5 == AddComponents(w4, ids, "Bullet", [e \in ids |-> [owner |-> "Player", damage |-> 1]])
  IN [s EXCEPT !.w = w5]

\* WeaponSystem.update.  The cooldown is kept at 0 once it is at or below 0:
\* the program only tests cooldown <= 0 and overwrites it when firing.
WeaponUpdate(s, d, playerFiring, player) ==
  IF player = NoEntity THEN s
  ELSE IF ~HasComponent(s.w, player, "Weapon") \/ ~HasComponent(s.w, player, "Transform")
  THEN s
  ELSE LET weapon == GetComponent(s.w, player, "Weapon")
           cooled == [weapon EXCEPT !.cooldown = Max2(@ - d, 0)]
       IN IF playerFiring /\ cooled.cooldown <= 0
          THEN FireWeapon(
                 [s EXCEPT !.w = SetComponent(s.w, player, "Weapon",
                                   [cooled EXCEPT !.cooldown = FireInterval])],
                 cooled)
          ELSE [s EXCEPT !.w = SetComponent(s.w, player, "Weapon", cooled)]

\* a shot that adds the interval to what is left of the cooldown
WeaponCooldownUpdate_CarriesOver(s, d, playerFiring, player) ==
  IF player = NoEntity THEN s
  ELSE IF ~HasComponent(s.w, player, "Weapon") \/ ~HasComponent(s.w, player, "Transform")
  THEN s
  ELSE LET weapon == GetComponent(s.w, player, "Weapon")
           cooled == [weapon EXCEPT !.cooldown = @ - d]
       IN IF playerFiring /\ cooled.cooldown <= 0
          THEN FireWeapon(
                 [s EXCEPT !.w = SetComponent(s.w, player, "Weapon",
                                   [cooled EXCEPT !.cooldown = @ + FireInterval])],
                 cooled)
          ELSE [s EXCEPT !.w = SetComponent(s.w, player, "Weapon", cooled)]

\* WeaponSystem.update with the cooldown as the program keeps it: it goes
\* below 0 while the player does not fire
WeaponCooldownUpdate(s, d, playerFiring, player) ==
  IF player = NoEntity THEN s
  ELSE IF ~HasComponent(s.w, player, "Weapon") \/ ~HasComponent(s.w, player, "Transform")
  THEN s
  ELSE LET weapon == GetComponent(s.w, player, "Weapon")
           cooled == [weapon EXCEPT !.cooldown = @ - d]
       IN IF playerFiring /\ cooled.cooldown <= 0
          THEN FireWeapon(
                 [s EXCEPT !.w = SetComponent(s.w, player, "Weapon",
                                   [cooled EXCEPT !.cooldown = FireInterval])],
                 cooled)
          ELSE [s EXCEPT !.w = SetComponent(s.w, player, "Weapon", cooled)]

\* an upgrade without the test for the highest tier
UpgradeWeapon_NoCap(s, player) ==
  IF ~HasComponent(s.w, player, "Weapon") THEN s
  ELSE LET weapon == GetComponent(s.w, player, "Weapon")
       IN [s EXCEPT !.w = SetComponent(s.w, player, "Weapon",
                     [weapon EXCEPT !.type = @ + 1, !.level = @ + 1])]

UpgradeWeapon(s, player) ==
  IF ~HasComponent(s.w, player, "Weapon") THEN s
  ELSE LET weapon == GetComponent(s.w, player, "Weapon")
       IN IF weapon.type < SPREAD7
          THEN [s EXCEPT !.w = SetComponent(s.w, player, "Weapon",
                          [weapon EXCEPT !.type = @ + 1, !.level = @ + 1])]
          ELSE s

-----------------------------------------------------------------------------
(* PowerUpSystem (src/unnamed/part_005) and the powerup:* subscribers of   *)
(* main.ts.  The pick-ups that are dropped are SpreadShot, Shield and Bomb, *)
(* none of which is a timed effect.                                         *)

SPREAD_SHOT == 0
SHIELD == 1
BOMB == 2
BOMB_LIMIT == 3

\* Math.random() >= POWERUP_DROP_CHANCE
NoDrop == -1

\* the powerup:spawn subscriber
PowerUpOnSpawn(s, type) == [s EXCEPT !.pendingSpawns = Append(@, [type |-> type])]

\* PowerUpSystem.update: one pick-up entity per pending spawn
PowerUpUpdate(s) ==
  LET n == Len(s.pendingSpawns)
      base == s.w.nextEntityId
      ids == base .. (base + n - 1)
      w1 == CreateEntities(s.w, n)
      w2 == AddComponents(w1, ids, "Transform", [e \in ids |-> Somewhere])
      w3 == AddComponents(w2, ids, "Velocity", [e \in ids |-> Moving])
      w4 == AddComponents(w3, ids, "Collider", [e \in ids |-> PowerUpCollider])
      w5 == AddComponents(w4, ids, "PowerUp",
              [e \in ids |-> [type |-> s.pendingSpawns[e - base + 1].type]])
  IN [s EXCEPT !.w = w5, !.pendingSpawns = <<>>]

\* applyPowerUp followed by the subscriber of the event it emits
ApplyPowerUp(s, type) ==
  CASE type = SPREAD_SHOT ->
         LET s1 == [s EXCEPT !.obs.pickups = @ + 1]
         IN IF s1.playerEntity # NoEntity THEN UpgradeWeapon(s1, s1.playerEntity)
            ELSE s1
    [] type = SHIELD -> [s EXCEPT !.shieldHits = SHIELD_HITS,
                                  !.obs.shielded = TRUE, !.obs.absorbed = 0]
    [] type = BOMB -> [s EXCEPT !.bombs = Min2(@ + 1, BOMB_LIMIT)]
    [] OTHER -> s

-----------------------------------------------------------------------------
(* gameplay/damage-system.ts : DamageSystem *)

\* the enemy:destroyed subscribers: WaveSystem, then counters and effects
\* that are not followed
OnEnemyDestroyed(s) == WaveOnEnemyDestroyed(s)

\* the bullet is spent only on an enemy that survives the hit
HandleBulletHitEnemy_Pierces(s, bulletEntity, enemyEntity, drop) ==
  IF ~HasComponent(s.w, enemyEntity, "Health")
       \/ ~HasComponent(s.w, enemyEntity, "Transform")
  THEN [s EXCEPT !.w = DestroyEntity(s.w, bulletEntity)]
  ELSE LET damage == IF HasComponent(s.w, bulletEntity, "Bullet")
                     THEN GetComponent(s.w, bulletEntity, "Bullet").damage
                     ELSE 1
           h == GetComponent(s.w, enemyEntity, "Health")
           h1 == [h EXCEPT !.current = @ - damage]
           s2 == [s EXCEPT !.w = SetComponent(s.w, enemyEntity, "Health", h1)]
       IN IF h1.current <= 0
          THEN LET unit == GetComponent(s2.w, enemyEntity, "Enemy")
                   pos == GetComponent(s2.w, enemyEntity, "Transform")
                   e1 == Publish(s2, [name |-> "score:add", value |-> unit.scoreValue])
                   e2 == Publish(e1, [name |-> "enemy:destroyed", x |-> pos.x,
                                      y |-> pos.y, faction |-> unit.faction])
                   e3 == Publish(e2, [name |-> "explosion", x |-> pos.x, y |-> pos.y])
                   s3 == OnEnemyDestroyed(
                           [e3 EXCEPT !.obs.repeats =
                              @ + (IF h.current <= 0 THEN 1 ELSE 0)])
                   s4 == IF drop # NoDrop
                         THEN PowerUpOnSpawn(
                                Publish(s3, [name |-> "powerup:spawn", type |-> drop]),
                                drop)
                         ELSE s3
               IN [s4 EXCEPT !.w = DestroyEntity(s4.w, enemyEntity)]
          ELSE Publish([s2 EXCEPT !.w = DestroyEntity(s2.w, bulletEntity)],
                       [name |-> "enemy:hit", entity |-> enemyEntity])

\* drop is the outcome of the two Math.random() draws: NoDrop or a type.
\* enemy?.scoreValue ?? SCORE_BASIC_ENEMY and enemy?.faction ?? 0: every
\* entity of the Enemy layer holds an Enemy component.
HandleBulletHitEnemy(s, bulletEntity, enemyEntity, drop) ==
  LET s1 == [s EXCEPT !.w = DestroyEntity(s.w, bulletEntity)]
  IN IF ~HasComponent(s1.w, enemyEntity, "Health")
          \/ ~HasComponent(s1.w, enemyEntity, "Transform")
     THEN s1
     ELSE LET damage == IF HasComponent(s1.w, bulletEntity, "Bullet")
                        THEN GetComponent(s1.w, bulletEntity, "Bullet").damage
                        ELSE 1
              h == GetComponent(s1.w, enemyEntity, "Health")
              h1 == [h EXCEPT !.current = @ - damage]
              s2 == [s1 EXCEPT !.w = SetComponent(s1.w, enemyEntity, "Health", h1)]
          IN IF h1.current <= 0
             THEN LET unit == GetComponent(s2.w, enemyEntity, "Enemy")
                      pos == GetComponent(s2.w, enemyEntity, "Transform")
                      e1 == Publish(s2, [name |-> "score:add", value |-> unit.scoreValue])
                      e2 == Publish(e1, [name |-> "enemy:destroyed", x |-> pos.x,
                                         y |-> pos.y, faction |-> unit.faction])
                      e3 == Publish(e2, [name |-> "explosion", x |-> pos.x, y |-> pos.y])
                      s3 == OnEnemyDestroyed(
                              [e3 EXCEPT !.obs.repeats =
                                 @ + (IF h.current <= 0 THEN 1 ELSE 0)])
                      s4 == IF drop # NoDrop
                            THEN PowerUpOnSpawn(
                                   Publish(s3, [name |-> "powerup:spawn", type |-> drop]),
                                   drop)
                            ELSE s3
                  IN [s4 EXCEPT !.w = DestroyEntity(s4.w, enemyEntity)]
             ELSE Publish(s2, [name |-> "enemy:hit", entity |-> enemyEntity])

\* an enemy bullet that harms the player whatever the invincible flag says
HandleEnemyBulletHitPlayer_IgnoresFlag(s, bulletEntity, player) ==
  LET s1 == [s EXCEPT !.w = DestroyEntity(s.w, bulletEntity)]
  IN IF ~HasComponent(s1.w, player, "Health") THEN s1 ELSE OnPlayerDamage(s1)

HandleEnemyBulletHitPlayer(s, bulletEntity, player) ==
  LET s1 == [s EXCEPT !.w = DestroyEntity(s.w, bulletEntity)]
  IN IF ~HasComponent(s1.w, player, "Health") THEN s1
     ELSE IF GetComponent(s1.w, player, "Health").invincible THEN s1
     ELSE OnPlayerDamage(s1)

HandleEnemyContactPlayer(s, player) ==
  IF ~HasComponent(s.w, player, "Health") THEN s
  ELSE IF GetComponent(s.w, player, "Health").invincible THEN s
  ELSE OnPlayerDamage(s)

HandlePowerUpCollect(s, powerUpEntity) ==
  LET s1 == IF HasComponent(s.w, powerUpEntity, "Transform")
                 /\ HasComponent(s.w, powerUpEntity, "PowerUp")
            THEN ApplyPowerUp(s, GetComponent(s.w, powerUpEntity, "PowerUp").type)
            ELSE s
  IN [s1 EXCEPT !.w = DestroyEntity(s1.w, powerUpEntity)]

\* what a handler did to a pair with an invincible player, recorded in the
\* observations
InWindow(before, after, layer, other, player) ==
  IF HasComponent(before.w, player, "Health")
       /\ GetComponent(before.w, player, "Health").invincible
  THEN [after EXCEPT !.obs.window =
          [pair |-> layer, bullet |-> other,
           marked |-> {after.w.toDestroy[i] :
                         i \in (Len(before.w.toDestroy) + 1) .. Len(after.w.toDestroy)},
           emitted |-> after.obs.hits # before.obs.hits
                         \/ after.obs.absorbed # before.obs.absorbed,
           changed |-> after.w.components # before.w.components]]
  ELSE after

\* what handleBulletHitEnemy did to a pair, recorded in the observations:
\* the pair, the bullet's damage, the enemy's health before and after, the
\* enemy as it was stored, the entities marked for destruction and the
\* events emitted
Struck(before, after, bulletEntity, enemyEntity) ==
  IF HasComponent(before.w, enemyEntity, "Health")
       /\ HasComponent(before.w, enemyEntity, "Transform")
       /\ HasComponent(before.w, enemyEntity, "Enemy")
       /\ HasComponent(before.w, bulletEntity, "Bullet")
  THEN [after EXCEPT !.obs.lastHit =
          [bullet |-> bulletEntity, enemy |-> enemyEntity,
           damage |-> GetComponent(before.w, bulletEntity, "Bullet").damage,
           was |-> GetComponent(before.w, enemyEntity, "Health").current,
           now |-> GetComponent(after.w, enemyEntity, "Health").current,
           at |-> GetComponent(before.w, enemyEntity, "Transform"),
           unit |-> GetComponent(before.w, enemyEntity, "Enemy"),
           marked |-> {after.w.toDestroy[i] :
                         i \in (Len(before.w.toDestroy) + 1) .. Len(after.w.toDestroy)},
           events |-> SubSeq(after.log, Len(before.log) + 1, Len(after.log))]]
  ELSE after

ProcessCollision(s, pair, drop) ==
  LET a == pair.entityA
      b == pair.entityB
      la == pair.layerA
      lb == pair.layerB
  IN IF {la, lb} = {"PlayerBullet", "Enemy"}
     THEN Struck(s, HandleBulletHitEnemy(s, IF la = "PlayerBullet" THEN a ELSE b,
                                         IF la = "Enemy" THEN a ELSE b, drop),
                 IF la = "PlayerBullet" THEN a ELSE b,
                 IF la = "Enemy" THEN a ELSE b)
     ELSE IF {la, lb} = {"Player", "EnemyBullet"}
     THEN InWindow(s, HandleEnemyBulletHitPlayer(s, IF la = "EnemyBullet" THEN a ELSE b,
                                                 IF la = "Player" THEN a ELSE b),
                   "EnemyBullet", IF la = "EnemyBullet" THEN a ELSE b,
                   IF la = "Player" THEN a ELSE b)
     ELSE IF {la, lb} = {"Player", "Enemy"}
     THEN InWindow(s, HandleEnemyContactPlayer(s, IF la = "Player" THEN a ELSE b),
                   "Enemy", IF la = "Enemy" THEN a ELSE b,
                   IF la = "Player" THEN a ELSE b)
     ELSE IF {la, lb} = {"Player", "PowerUp"}
     THEN HandlePowerUpCollect(s, IF la = "PowerUp" THEN a ELSE b)
     ELSE s

\* DamageSystem.update: the pairs in list order, from pair i on
RECURSIVE DamageFrom(_, _, _, _)
DamageFrom(s, pairs, drops, i) ==
  IF i > Len(pairs) THEN s
  ELSE DamageFrom(ProcessCollision(s, pairs[i], drops[i]), pairs, drops, i + 1)

DamageUpdate(s, pairs, drops) == DamageFrom(s, pairs, drops, 1)

-----------------------------------------------------------------------------
(* main.ts : the input:bomb subscriber *)

BOMB_DAMAGE == 3

\* one enemy of the bomb loop
BombEnemy(s, e) ==
  IF ~HasComponent(s.w, e, "Health") THEN s
  ELSE LET h == GetComponent(s.w, e, "Health")
           h1 == [h EXCEPT !.current = @ - BOMB_DAMAGE]
           s1 == [s EXCEPT !.w = SetComponent(s.w, e, "Health", h1)]
       IN IF h1.current <= 0 /\ HasComponent(s1.w, e, "Transform")
          THEN LET s2 == OnEnemyDestroyed(
                              [s1 EXCEPT !.obs.repeats =
                                 @ + (IF h.current <= 0 THEN 1 ELSE 0)])
               IN [s2 EXCEPT !.w = DestroyEntity(s2.w, e)]
          ELSE s1

RECURSIVE BombFrom(_, _, _)
BombFrom(s, enemies, i) ==
  IF i > Len(enemies) THEN s
  ELSE BombFrom(BombEnemy(s, enemies[i]), enemies, i + 1)

\* a bomb that does not ask whether the session is playing
OnInputBomb_InAnyState(s) ==
  IF s.bombs <= 0 THEN s
  ELSE LET s1 == BombFrom([s EXCEPT !.bombs = @ - 1], Query(s.w, {"Enemy"}), 1)
           bullets == Query(s1.w, {"Bullet"})
           hostile == {e \in Range(bullets) :
                         /\ HasComponent(s1.w, e, "Collider")
                         /\ GetComponent(s1.w, e, "Collider").layer = "EnemyBullet"}
       IN [s1 EXCEPT !.w.toDestroy = @ \o SetToSortedSeq(hostile)]

OnInputBomb(s) ==
  IF s.state # "playing" THEN s
  ELSE IF s.bombs <= 0 THEN s
  ELSE LET s1 == BombFrom([s EXCEPT !.bombs = @ - 1], Query(s.w, {"Enemy"}), 1)
           bullets == Query(s1.w, {"Bullet"})
           hostile == {e \in Range(bullets) :
                         /\ HasComponent(s1.w, e, "Collider")
                         /\ GetComponent(s1.w, e, "Collider").layer = "EnemyBullet"}
       IN [s1 EXCEPT !.w.toDestroy = @ \o SetToSortedSeq(hostile)]

-----------------------------------------------------------------------------
(* EnemyAISystem (src/unnamed/part_006), reduced to its firing *)

BURST_SHOTS == 3

\* fireEnemyBullet / fireAimedBullet / fireDirectionalBullet
\* an enemy bullet given the collider of a player bullet
FireEnemyBullet_PlayerLayer(s) ==
  LET e == s.w.nextEntityId
      w1 == CreateEntity(s.w)
      w2 == AddComponent(w1, e, "Transform", Somewhere)
      w3 == AddComponent(w2, e, "Velocity", Moving)
      w4 == AddComponent(w3, e, "Collider", PlayerBulletCollider)
      w5 == AddComponent(w4, e, "Bullet", [owner |-> "Enemy", damage |-> 1])
  IN [s EXCEPT !.w = w5]

FireEnemyBullet(s) ==
  LET e == s.w.nextEntityId
      w1 == CreateEntity(s.w)
      w2 == AddComponent(w1, e, "Transform", Somewhere)
      w3 == AddComponent(w2, e, "Velocity", Moving)
      w4 == AddComponent(w3, e, "Collider", EnemyBulletCollider)
      w5 == AddComponent(w4, e, "Bullet", [owner |-> "Enemy", damage |-> 1])
  IN [s EXCEPT !.w = w5]

\* EnemyAISystem.update with shooter the enemy whose fire cooldown has run
\* out in this tick (NoEntity: none).  A gunship hands its burst to
\* setTimeout; every other unit creates its bullet at once.
AIUpdate(s, shooter) ==
  IF shooter = NoEntity THEN s
  ELSE IF GetComponent(s.w, shooter, "Enemy").behaviorId = ARMADA_GUNSHIP
  THEN [s EXCEPT !.timers = @ + BURST_SHOTS]
  ELSE FireEnemyBullet(s)

\* a burst callback runs: the shot leaves if entity 0 holds a Transform
BurstCallback(s) ==
  LET s1 == [s EXCEPT !.timers = @ - 1]
  IN IF HasComponent(s1.w, 0, "Transform") THEN FireEnemyBullet(s1) ELSE s1

-----------------------------------------------------------------------------
(* core/movement-system.ts : MovementSystem (integration left out) *)

OFF_SCREEN_MARGIN == 100

\* the test of update on a position: beyond the screen and the margin
OffScreen(t) ==
  \/ t.x < 0 - OFF_SCREEN_MARGIN
  \/ t.x > SCREEN_WIDTH + OFF_SCREEN_MARGIN
  \/ t.y < 0 - OFF_SCREEN_MARGIN
  \/ t.y > SCREEN_HEIGHT + OFF_SCREEN_MARGIN

\* the entities that update may cull: not enemies, not the player
Cullable(w) ==
  {e \in Range(Query(w, {"Transform", "Velocity"})) :
     ~HasComponent(w, e, "Enemy") /\ ~HasComponent(w, e, "PlayerInput")}

\* MovementSystem.update with outside the cullable entities that are beyond
\* the margin after integration
MovementUpdate(s, outside) ==
  [s EXCEPT !.w.toDestroy = @ \o SetToSortedSeq(outside)]

-----------------------------------------------------------------------------
(* InputManager (src/unnamed/part_004) and the menus *)

\* the keys and pad buttons followed
Controls == {"Space", "KeyE", "Escape", "PadStart"}

\* what is held down during a frame: nothing or one control
HeldChoices == {{}} \cup {{c} : c \in limits.controls}

\* readKeyboard, readGamepad and the edge detection of update
InputUpdate(prev, held) ==
  LET fire == "Space" \in held
      bomb == "KeyE" \in held
      pause == ("Escape" \in held) \/ ("PadStart" \in held)
      confirm == "Space" \in held
      back == "Escape" \in held
  IN [fire |-> fire, bomb |-> bomb, pause |-> pause, confirm |-> confirm,
      back |-> back,
      bombJustPressed |-> bomb /\ ~prev.bomb,
      pauseJustPressed |-> pause /\ ~prev.pause,
      confirmJustPressed |-> confirm /\ ~prev.confirm,
      backJustPressed |-> back /\ ~prev.back]

\* TitleScreen.confirm, PauseMenu.confirm, GameOverScreen.confirm
TitleConfirm(s) == IF s.titleSel = 0 THEN OnGameStart(s) ELSE s

PauseConfirm(s) ==
  IF s.pauseSel = 0 THEN OnGameResume(s)
  ELSE IF s.pauseSel = 1 THEN OnGameMenu(s)
  ELSE s

GameOverConfirm(s) ==
  IF s.overSel = 0 THEN OnGameStart(s)
  ELSE IF s.overSel = 1 THEN OnGameMenu(s)
  ELSE s

\* UIManager.handleMenuInput(in, st), the stick and arrow keys at rest
HandleMenuInput(s, in, st) ==
  IF st = "menu" THEN (IF in.confirmJustPressed THEN TitleConfirm(s) ELSE s)
  ELSE IF st = "paused"
  THEN LET s1 == IF in.confirmJustPressed THEN PauseConfirm(s) ELSE s
       IN IF in.backJustPressed THEN OnGameResume(s1) ELSE s1
  ELSE IF st = "gameover"
  THEN (IF in.confirmJustPressed THEN GameOverConfirm(s) ELSE s)
  ELSE s

\* the click listener of item i of the screen that is on display
ClickItem(s, i) ==
  IF s.state = "menu" THEN TitleConfirm([s EXCEPT !.titleSel = i])
  ELSE IF s.state = "paused" THEN PauseConfirm([s EXCEPT !.pauseSel = i])
  ELSE IF s.state = "gameover" THEN GameOverConfirm([s EXCEPT !.overSel = i])
  ELSE s

-----------------------------------------------------------------------------
(* main.ts gameLoop: the frame callback in three steps (input and menus,   *)
(* the gameplay systems, the flush), and what happens between two frames.  *)
(* What the surroundings do in a run (how often a session is started, how  *)
(* far the waves are followed, how many bullets and pick-ups are created,  *)
(* whether anything reaches the player) is bounded by limits.              *)

\* the sessions started up to s are within the limit
Allowed(s) == s.obs.session <= limits.sessions

FrameKeeps == UNCHANGED <<harnessVars, busVars, scoreVars, effectVars, aiVars, limits>>

\* a pause, back or confirm control went down in the frame that read st
Pressed(st) == st.pauseJustPressed \/ st.backJustPressed \/ st.confirmJustPressed

\* the input:pause subscriber has run from before to after: when it paused
\* the session the observations wait for the next press
Paused(before, after) ==
  IF before.state = "playing" /\ after.state = "paused"
  THEN [after EXCEPT !.obs.fresh = FALSE]
  ELSE after

\* const input = getState(); inputManager.update(), which publishes
\* input:pause and then input:bomb; if (!isPlaying()) handleMenuInput(...)
InputStep ==
  /\ pc = "idle"
  /\ \E held \in HeldChoices :
     \E st \in {InputUpdate(inputState, held)} :
     \E s0 \in {[Cur EXCEPT !.obs.fresh = state = "paused" /\ (@ \/ Pressed(st))]} :
     \E s1 \in {IF st.pauseJustPressed THEN Paused(s0, OnInputPause(s0)) ELSE s0} :
     \E s2 \in {IF st.bombJustPressed THEN OnInputBomb(s1) ELSE s1} :
     \E s3 \in {IF s2.state # "playing"
                THEN HandleMenuInput(s2, inputState, s2.state) ELSE s2} :
           /\ Allowed(s3)
           /\ Commit(s3)
           /\ inputState' = st
           /\ pc' = IF s3.state = "playing" THEN "systems" ELSE "idle"
           /\ input' = IF s3.state = "playing" THEN inputState ELSE EmptyInput
           /\ dt' = IF s3.state = "playing" THEN FrameDt ELSE 0
  /\ UNCHANGED collisions
  /\ FrameKeeps

EnemyBulletsInFlight(w) ==
  {e \in Range(Query(w, {"Bullet", "Collider"})) :
     GetComponent(w, e, "Collider").layer = "EnemyBullet"}

\* the enemies whose fire cooldown may run out in this tick
ShooterChoices(w) ==
  {NoEntity} \cup
  (IF Cardinality(EnemyBulletsInFlight(w)) < limits.shots /\ timers = 0
   THEN Range(Query(w, {"Transform", "Velocity", "Enemy"}))
   ELSE {})

\* the cullable entities beyond the margin: none of them or all of them
CullChoices(w) == IF limits.cull THEN {{}, Cullable(w)} ELSE {{}}

\* the pairs collisionSystem.update may report: two collider-bearing
\* entities of compatible layers
CollisionCandidates(w) ==
  LET ents == Range(Query(w, {"Transform", "Collider"}))
  IN {pr \in ents \X ents :
        /\ pr[1] < pr[2]
        /\ ShouldCollide(GetComponent(w, pr[1], "Collider").layer,
                         GetComponent(w, pr[2], "Collider").layer)
        /\ limits.harm
             \/ {GetComponent(w, pr[1], "Collider").layer,
                 GetComponent(w, pr[2], "Collider").layer}
                  \notin {{"Player", "Enemy"}, {"Player", "EnemyBullet"}}}

PairRecord(w, pr) ==
  [entityA |-> pr[1], entityB |-> pr[2],
   layerA |-> GetComponent(w, pr[1], "Collider").layer,
   layerB |-> GetComponent(w, pr[2], "Collider").layer]

\* the overlapping pairs, listed as one grid cell lists them
PairList(w, hit) ==
  [n \in 1 .. Cardinality(hit) |->
     PairRecord(w,
       CHOOSE t \in hit :
         Cardinality({u \in hit : u[1] < t[1] \/ (u[1] = t[1] /\ u[2] < t[2])})
           = n - 1)]

\* up to MaxPairs of the candidates overlap
RECURSIVE UpTo(_, _)
UpTo(S, n) ==
  IF n = 0 THEN {{}}
  ELSE LET smaller == UpTo(S, n - 1)
       IN smaller \cup {h \cup {x} : h \in smaller, x \in S}

\* two player bullets overlap one enemy only if they left in one volley or
\* the enemy is wider than the gap between two volleys (radii are in
\* thirds of a pixel)
Together(w, p, q) ==
  LET layers(t) == {GetComponent(w, t[1], "Collider").layer,
                    GetComponent(w, t[2], "Collider").layer}
      member(t, layer) ==
        IF GetComponent(w, t[1], "Collider").layer = layer THEN t[1] ELSE t[2]
      bp == member(p, "PlayerBullet")
      bq == member(q, "PlayerBullet")
      enemy == member(p, "Enemy")
  IN (/\ layers(p) = {"PlayerBullet", "Enemy"}
      /\ layers(q) = {"PlayerBullet", "Enemy"}
      /\ bp # bq
      /\ member(q, "Enemy") = enemy)
     => \/ GetComponent(w, bp, "Transform").volley = GetComponent(w, bq, "Transform").volley
        \/ 2 * (GetComponent(w, enemy, "Collider").radius
                  + GetComponent(w, bp, "Collider").radius) > 3 * MinBulletGap

HitChoices(w) ==
  {hit \in UpTo(CollisionCandidates(w), MaxPairs) :
     \A p \in hit : \A q \in hit : Together(w, p, q)}

\* the Math.random() draws of the pairs: a drop only where a bullet meets
\* an enemy
DropLists(pairs) ==
  {drops \in [DOMAIN pairs -> {NoDrop} \cup limits.drops] :
     \A i \in DOMAIN pairs :
        drops[i] # NoDrop => {pairs[i].layerA, pairs[i].layerB} = {"PlayerBullet", "Enemy"}}

\* if (isPlaying()) { playerMovement.update; enemyAI.update;
\* weaponSystem.update; movementSystem.update; collisionSystem.update;
\* damageSystem.update; powerUpSystem.update; waveSystem.update; ... }
SystemsStep ==
  /\ pc = "systems"
  /\ \E shooter \in ShooterChoices(World) :
     \E s3 \in {WeaponUpdate(
                  AIUpdate([PlayerUpdate(Cur, dt) EXCEPT
                              !.obs.sinceDamage = Min2(@ + dt, INVINCIBILITY_DURATION)],
                           shooter),
                  dt, input.fire, playerEntity)} :
     \E outside \in CullChoices(s3.w) :
     \E s4 \in {MovementUpdate(s3, outside)} :
     \E hit \in HitChoices(s4.w) :
     \E pairs \in {PairList(s4.w, hit)} :
     \E drops \in DropLists(pairs) :
     \E s6 \in {PowerUpUpdate(DamageUpdate(s4, pairs, drops))} :
     \E s7 \in {[s6 EXCEPT
                   !.obs.created = @ + (s6.w.nextEntityId - nextEntityId),
                   !.obs.pauseTicks = IF s6.obs.zeroPending > 0 THEN @ + dt ELSE @]} :
     \E s8 \in {WaveUpdate(s7, dt)} :
     \E s9 \in {IF s8.currentWave # s7.currentWave THEN RecordSpawn(s7, s8) ELSE s8} :
        /\ s7.obs.created <= limits.created
        /\ s8.currentWave <= limits.waveCap
        /\ Commit(s9)
        /\ collisions' = pairs
  /\ pc' = "flush"
  /\ UNCHANGED <<inputState, input, dt>>
  /\ FrameKeeps

\* world.flush(), the last store operation of the frame
FlushStep ==
  /\ pc = "flush"
  /\ \E s1 \in {[Cur EXCEPT !.w = Flush(World),
                             !.obs.flushed = @ \cup Range(toDestroy),
                             !.obs.window = NoPair,
                             !.obs.lastHit = NoHit]} : Commit(s1)
  /\ pc' = "idle"
  /\ input' = EmptyInput
  /\ dt' = 0
  /\ collisions' = <<>>
  /\ UNCHANGED inputState
  /\ FrameKeeps

\* a click on an item of the screen on display, between two frames
Click ==
  /\ pc = "idle"
  /\ state # "playing"
  /\ \E i \in {0, 1} :
     \E s1 \in {ClickItem([Cur EXCEPT !.obs.fresh = state = "paused"], i)} :
        Allowed(s1) /\ Commit(s1)
  /\ UNCHANGED <<inputState, input, dt, collisions, pc>>
  /\ FrameKeeps

\* a callback handed to setTimeout by a gunship runs, between two frames
TimerFire ==
  /\ pc = "idle"
  /\ timers > 0
  /\ \E s1 \in {BurstCallback(Cur)} :
     \E s2 \in {[s1 EXCEPT !.obs.created = @ + (s1.w.nextEntityId - nextEntityId)]} :
        /\ s2.obs.created <= limits.created
        /\ Commit(s2)
  /\ UNCHANGED <<inputState, input, dt, collisions, pc>>
  /\ FrameKeeps

\* a run of waves: the player shoots and bombs and nothing reaches the player
Init ==
  /\ InitProgram /\ InitHarness
  /\ limits = [waveCap |-> MaxWave, sessions |-> 1, harm |-> FALSE,
               created |-> MaxShots, shots |-> 0,
               controls |-> {"Space", "KeyE"}, drops |-> {}, cull |-> TRUE]

Next ==
  \/ InputStep
  \/ SystemsStep
  \/ FlushStep
  \/ Click

Spec == Init /\ [][Next]_vars

\* a run with spread-shot pick-ups, in which every bullet stays on the field
\* until it hits
InitVolley ==
  /\ InitProgram /\ InitHarness
  /\ limits = [waveCap |-> MaxWave, sessions |-> 1, harm |-> FALSE,
               created |-> MaxCreated, shots |-> 0,
               controls |-> {"Space"}, drops |-> {SPREAD_SHOT}, cull |-> FALSE]

SpecVolley == InitVolley /\ [][Next]_vars

\* a run in which enemies and their bullets reach the player
InitDamage ==
  /\ InitProgram /\ InitHarness
  /\ limits = [waveCap |-> 1, sessions |-> MaxSessions, harm |-> TRUE,
               created |-> MaxEnemyBullets, shots |-> MaxEnemyBullets,
               controls |-> {}, drops |-> {}, cull |-> TRUE]

SpecDamage == InitDamage /\ [][Next]_vars

-----------------------------------------------------------------------------
(* A session that has reached the first wave with a gunship.  The player   *)
(* has destroyed every unit before it with one bullet per health point and *)
(* no pick-up has dropped; of the gunship's wave only the gunship is left. *)

\* the first wave whose roster holds a gunship
LateWave == MINIBOSS_INTERVAL

RECURSIVE RosterHp(_, _)
RosterHp(roster, i) ==
  IF i > Len(roster) THEN 0 ELSE roster[i].hp + RosterHp(roster, i + 1)

\* units spawned and bullets fired in the waves before wave
RECURSIVE SpentBefore(_)
SpentBefore(wave) ==
  IF wave <= 1 THEN 0
  ELSE SpentBefore(wave - 1) + Len(WaveRoster(wave - 1))
         + RosterHp(WaveRoster(wave - 1), 1)

GunshipIndex ==
  CHOOSE i \in DOMAIN WaveRoster(LateWave) :
    WaveRoster(LateWave)[i].behaviorId = ARMADA_GUNSHIP

GunshipId == 1 + SpentBefore(LateWave) + (GunshipIndex - 1)

\* every unit of the gunship's wave has been spawned and every one but the
\* gunship shot
LateNextId ==
  1 + SpentBefore(LateWave + 1) - WaveRoster(LateWave)[GunshipIndex].hp

\* the session in which every unit of the given wave has been spawned and
\* every one but the index-th of its roster shot
SessionLeft(wave, index) ==
  LET unitId == 1 + SpentBefore(wave) + (index - 1)
      nextId == 1 + SpentBefore(wave + 1) - WaveRoster(wave)[index].hp
      blank ==
        [w |-> EmptyWorld, state |-> "playing", previousState |-> "menu",
         playerEntity |-> NoEntity, bombs |-> 3, shieldHits |-> 0,
         currentWave |-> wave, enemiesAlive |-> 0, waveActive |-> TRUE,
         wavePauseTimer |-> 0, waitingForNextWave |-> FALSE,
         difficultyMultiplier |-> Whole + Escalations(wave) * BULLET_SPEED_INCREASE,
         spawnRateMultiplier |-> Whole + Escalations(wave) * SPAWN_RATE_INCREASE,
         bulletSpeedMultiplier |-> Whole + Escalations(wave) * BULLET_SPEED_INCREASE,
         pendingSpawns |-> <<>>, titleSel |-> 0, pauseSel |-> 0, overSel |-> 0,
         timers |-> 0,
         obs |-> [FreshObs EXCEPT
                    !.session = 1,
                    !.lastSpawn = [pending |-> 1, waited |-> WAVE_PAUSE_DURATION,
                                   step |-> 1, wave |-> wave],
                    !.flushed = (1 .. (nextId - 1)) \ {unitId}],
         log |-> <<>>, inTick |-> FALSE]
      s1 == CreatePlayer(blank)
      s2 == SpawnWave([s1 EXCEPT !.w.nextEntityId = unitId],
                      <<WaveRoster(wave)[index]>>)
  IN [s2 EXCEPT !.w.nextEntityId = nextId]

LateSession == SessionLeft(LateWave, GunshipIndex)

\* the program in the session ses, between two frames
InitSession(ses) ==
  /\ nextEntityId = ses.w.nextEntityId
  /\ entities = ses.w.entities
  /\ components = ses.w.components
  /\ toDestroy = ses.w.toDestroy
  /\ state = ses.state
  /\ previousState = ses.previousState
  /\ playerEntity = ses.playerEntity
  /\ bombs = ses.bombs
  /\ shieldHits = ses.shieldHits
  /\ currentWave = ses.currentWave
  /\ enemiesAlive = ses.enemiesAlive
  /\ waveActive = ses.waveActive
  /\ wavePauseTimer = ses.wavePauseTimer
  /\ waitingForNextWave = ses.waitingForNextWave
  /\ pendingSpawns = ses.pendingSpawns /\ activeEffects = <<>> /\ InitAISystem
  /\ difficultyMultiplier = ses.difficultyMultiplier
  /\ spawnRateMultiplier = ses.spawnRateMultiplier
  /\ bulletSpeedMultiplier = ses.bulletSpeedMultiplier
  /\ titleSel = ses.titleSel
  /\ pauseSel = ses.pauseSel
  /\ overSel = ses.overSel
  /\ timers = ses.timers
  /\ obs = ses.obs
  /\ inputState = EmptyInput /\ input = EmptyInput /\ dt = 0
  /\ collisions = <<>> /\ pc = "idle"
  /\ InitHarness

InitLateProgram == InitSession(LateSession)

InitLate ==
  /\ InitLateProgram
  /\ limits = [waveCap |-> LateWave, sessions |-> 1, harm |-> FALSE,
               created |-> MaxLateShots, shots |-> 1,
               controls |-> {"Escape"}, drops |-> {}, cull |-> TRUE]

NextLate ==
  \/ InputStep
  \/ SystemsStep
  \/ FlushStep
  \/ Click
  \/ TimerFire

SpecLate == InitLate /\ [][NextLate]_vars

-----------------------------------------------------------------------------
(* The collision resolver on its own: every placement of MaxColliders      *)
(* collider-bearing entities (the player, created first, and a mix of      *)
(* bullets, pick-ups and enemies) on coordinates on both sides of grid     *)
(* cell borders, including the border at 0 with negative coordinates.      *)

\* two points on either side of the cell border x = 100, two on either side
\* of the border y = 0, one far away
Placements ==
  {[x |-> 96, y |-> -5], [x |-> 104, y |-> -5], [x |-> 104, y |-> 5],
   [x |-> 320, y |-> 5]}

\* size of the Swarm Drone (generateWaveConfig)
DRONE_SIZE == 28

PlacedColliders ==
  {PlayerBulletCollider, EnemyBulletCollider, PowerUpCollider,
   EnemyCollider(DRONE_SIZE)}

\* the collider and the position of entity e in a placement
PlacedWorld(pos, col) ==
  [nextEntityId |-> MaxColliders,
   entities |-> 0 .. (MaxColliders - 1),
   components |->
     [t \in ComponentTypes |->
        IF t = "Transform" THEN pos
        ELSE IF t = "Collider" THEN col
        ELSE <<>>],
   toDestroy |-> <<>>]

InitCollision ==
  /\ \E pos \in [0 .. (MaxColliders - 1) -> Placements] :
     \E col \in [0 .. (MaxColliders - 1) -> PlacedColliders \cup {PlayerCollider}] :
        /\ col[0] = PlayerCollider
        /\ \A e \in 1 .. (MaxColliders - 1) : col[e] # PlayerCollider
        /\ nextEntityId = PlacedWorld(pos, col).nextEntityId
        /\ entities = PlacedWorld(pos, col).entities
        /\ components = PlacedWorld(pos, col).components
        /\ toDestroy = <<>>
  /\ state = "playing" /\ previousState = "menu"
  /\ playerEntity = 0 /\ bombs = 0 /\ shieldHits = 0
  /\ currentWave = 0 /\ enemiesAlive = 0 /\ waveActive = FALSE
  /\ wavePauseTimer = 0 /\ waitingForNextWave = FALSE
  /\ pendingSpawns = <<>> /\ activeEffects = <<>> /\ InitAISystem
  /\ InitDifficulty
  /\ titleSel = 0 /\ pauseSel = 0 /\ overSel = 0
  /\ inputState = EmptyInput /\ timers = 0
  /\ input = EmptyInput /\ dt = FrameDt /\ collisions = <<>>
  /\ pc = "collision"
  /\ obs = FreshObs
  /\ limits = [waveCap |-> 0, sessions |-> 0, harm |-> TRUE,
               created |-> 0, shots |-> 0, controls |-> {}, drops |-> {},
               cull |-> FALSE]
  /\ InitHarness

\* collisionSystem.update(world) of one frame
CollisionPass ==
  /\ pc = "collision"
  /\ collisions' = CollisionUpdate(World)
  /\ pc' = "damage"
  /\ UNCHANGED <<storeVars, state, previousState, playerEntity, bombs, shieldHits,
                 waveVars, difficultyVars, pendingSpawns, menuVars, inputState, timers, input,
                 dt, harnessVars, busVars, scoreVars, effectVars, aiVars, obs, limits>>

NextCollision == CollisionPass

SpecCollision == InitCollision /\ [][NextCollision]_vars

-----------------------------------------------------------------------------
(* Properties of the collision resolver *)

\* the pairs of a collision list, each as the set of its two members
PairSets(out) == {{out[i].entityA, out[i].entityB} : i \in DOMAIN out}

LayerOf(e) == components["Collider"][e].layer

\* the all-pairs reference: layers in the matrix and distance squared
\* strictly below the squared sum of the radii
BruteForcePairs ==
  {{a, b} : a, b \in {e \in entities : HasComponent(World, e, "Transform") /\ HasComponent(World, e, "Collider")}}
  \cap
  {pr \in SUBSET entities :
     \E a, b \in pr :
        /\ a # b /\ pr = {a, b}
        /\ \E i \in DOMAIN COLLISION_PAIRS :
              {LayerOf(a), LayerOf(b)} = {COLLISION_PAIRS[i][1], COLLISION_PAIRS[i][2]}
        /\ LET dx == components["Transform"][a].x - components["Transform"][b].x
               dy == components["Transform"][a].y - components["Transform"][b].y
               rr == components["Collider"][a].radius + components["Collider"][b].radius
           IN 9 * (dx * dx + dy * dy) < rr * rr}

MatrixLayerSets ==
  {{"Player", "EnemyBullet"}, {"Player", "Enemy"}, {"Player", "PowerUp"},
   {"PlayerBullet", "Enemy"}}

\* C4: every pair of the collision output has a layer combination of the
\* compatibility matrix, in either order, and the layers it reports are the
\* layers of its two entities; a player bullet and an enemy bullet never pair.
C4_PairsAreInMatrix ==
  pc = "damage" =>
    \A i \in DOMAIN collisions :
       /\ {collisions[i].layerA, collisions[i].layerB} \in MatrixLayerSets
       /\ collisions[i].layerA = LayerOf(collisions[i].entityA)
       /\ collisions[i].layerB = LayerOf(collisions[i].entityB)

\* a player bullet and an enemy bullet share coordinates, the pass has run,
\* and some pair was output
C4_Witness ==
  /\ pc = "damage"
  /\ collisions # <<>>
  /\ \E a, b \in entities :
        /\ LayerOf(a) = "PlayerBullet" /\ LayerOf(b) = "EnemyBullet"
        /\ components["Transform"][a] = components["Transform"][b]

\* C5: the pairs returned by the grid broad phase are exactly the pairs of
\* the all-pairs check.
C5_GridEqualsBruteForce ==
  pc = "damage" => PairSets(collisions) = BruteForcePairs

\* a colliding pair whose members lie in different grid cells was output
C5_Witness ==
  /\ pc = "damage"
  /\ \E i \in DOMAIN collisions :
        CellOf(components["Transform"][collisions[i].entityA])
          # CellOf(components["Transform"][collisions[i].entityB])

\* C6: no unordered pair of entities appears twice in the collision output.
C6_NoDuplicatePairs ==
  pc = "damage" =>
    \A i, j \in DOMAIN collisions :
       {collisions[i].entityA, collisions[i].entityB}
         = {collisions[j].entityA, collisions[j].entityB} => i = j

\* two colliding entities of the same cell, hence sharing nine cells, were
\* output
C6_Witness ==
  /\ pc = "damage"
  /\ \E i \in DOMAIN collisions :
        CellOf(components["Transform"][collisions[i].entityA])
          = CellOf(components["Transform"][collisions[i].entityB])

-----------------------------------------------------------------------------
(* Properties of the session state machine *)

\* C9: a call transition(s) with s the current state changes nothing and
\* emits nothing; a call with another s emits exactly the pair state:change
\* {from: the state before, to: s} and state:<s>, in that order, and the
\* pairs emitted so far number the state changes so far.
C9_TransitionContract ==
  /\ nPairs = nChanges
  /\ lastCall.request # "none" =>
       IF lastCall.request = lastCall.from
       THEN /\ state = lastCall.from
            /\ previousState = lastCall.prev
            /\ busLog = <<>>
       ELSE /\ state = lastCall.request
            /\ previousState = lastCall.from
            /\ busLog = << [name |-> "state:change", from |-> lastCall.from,
                            to |-> lastCall.request],
                           [name |-> <<"state:", lastCall.request>>] >>
  /\ lastCall.request = "none" => busLog = <<>>

\* after some state changes, transition was called with the current state
C9_Witness ==
  /\ nChanges >= 2
  /\ lastCall.request # "none"
  /\ lastCall.request = lastCall.from

-----------------------------------------------------------------------------
(* Properties of the entity store in the game loop *)

\* the component types under which e is stored in a component map
StoredTypes(comps, e) == {t \in ComponentTypes : e \in DOMAIN comps[t]}

\* C1: deferred destruction.  After any step but the flush, every entity
\* handed to destroyEntity and not yet flushed is still in the entity set with
\* its Transform and with every component it had before the step, so query,
\* hasComponent and getComponent still return it; the flush ends the tick,
\* removes every such entity from the entity set and from every component
\* map and leaves the list empty; and an identifier that a flush removed is
\* never again in the entity set or a component map of the session.
C1_DeferredDestruction ==
  [][/\ pc # "flush" =>
          \A e \in Range(toDestroy') :
             /\ e \in entities'
             /\ "Transform" \in StoredTypes(components', e)
             /\ e \in entities => StoredTypes(components, e) \subseteq StoredTypes(components', e)
     /\ pc = "flush" =>
          /\ pc' = "idle"
          /\ \A e \in Range(toDestroy) :
                e \notin entities' /\ StoredTypes(components', e) = {}
     /\ pc' = "idle" => toDestroy' = <<>>
     /\ \A e \in obs.flushed' :
           e \notin entities' /\ StoredTypes(components', e) = {}]_vars

\* an entity waits for the flush, still stored, after an earlier flush has
\* removed another
C1_Witness ==
  /\ pc = "flush"
  /\ toDestroy # <<>>
  /\ \A e \in Range(toDestroy) : e \in entities /\ StoredTypes(components, e) # {}
  /\ obs.flushed # {}

-----------------------------------------------------------------------------
(* Properties of the wave director *)

\* the enemies of the store that are alive
LiveEnemies(ents, comps) ==
  {e \in ents : e \in DOMAIN comps["Enemy"] /\ e \in DOMAIN comps["Health"]
                 /\ comps["Health"][e].current > 0}

\* C2: the wave index moves to the next wave only when no enemy of the
\* current wave survives the step (as the claim states it).
C2_NoAdvanceWhileEnemyAlive ==
  [][(currentWave >= 1 /\ currentWave' > currentWave)
       => /\ currentWave' = currentWave + 1
          /\ entities \cap LiveEnemies(entities', components') = {}]_vars

\* C3: every spawn of a next wave answers exactly one moment at which the
\* alive counter reached 0 in an active wave, comes after the wave director
\* has counted WAVE_PAUSE_DURATION since that moment and moves the index by
\* one; at most one such moment is unanswered, and that is exactly while
\* the director waits, with the wave inactive and the pause still running.
C3_OneIntermissionOneSpawn ==
  /\ obs.lastSpawn.pending = 1
  /\ obs.lastSpawn.waited >= WAVE_PAUSE_DURATION
  /\ obs.lastSpawn.step = 1
  /\ obs.zeroPending \in {0, 1}
  /\ (obs.zeroPending = 1) <=> waitingForNextWave
  /\ waitingForNextWave =>
        /\ ~waveActive
        /\ wavePauseTimer > 0
        /\ wavePauseTimer + obs.pauseTicks = WAVE_PAUSE_DURATION

\* the second wave has been spawned after the pause that followed the first
C3_Witness ==
  /\ currentWave = 2
  /\ obs.lastSpawn.wave = 2
  /\ obs.lastSpawn.waited = WAVE_PAUSE_DURATION
  /\ waveActive

-----------------------------------------------------------------------------
(* Properties of the player's health *)

PlayerHealth(comps) == comps["Health"][playerEntity]

PlayerStored(comps) == playerEntity # NoEntity /\ playerEntity \in DOMAIN comps["Health"]

\* C7: within a session the player's health goes down only in a step at which
\* at least INVINCIBILITY_DURATION of play has passed since it last went
\* down, so a damage event inside the window leaves it as it is.
C7_InvincibilityWindow ==
  [][(/\ obs'.session = obs.session
      /\ PlayerStored(components) /\ PlayerStored(components')
      /\ PlayerHealth(components').current < PlayerHealth(components).current)
       => /\ obs'.lastGap >= INVINCIBILITY_DURATION
          /\ obs'.sinceDamage = 0
          /\ ~PlayerHealth(components).invincible
                \/ PlayerHealth(components).invincibleTimer <= dt]_vars

\* a tick has just passed in which an enemy or an enemy bullet overlapped
\* the player inside the window, and the window is still running
C7_Witness ==
  /\ pc = "flush"
  /\ PlayerStored(components)
  /\ PlayerHealth(components).invincible
  /\ PlayerHealth(components).invincibleTimer < INVINCIBILITY_DURATION
  /\ PlayerHealth(components).current = PLAYER_START_HP - 1
  /\ \E i \in DOMAIN collisions :
        {collisions[i].layerA, collisions[i].layerB}
           \in {{"Player", "Enemy"}, {"Player", "EnemyBullet"}}

\* C8: in a session the player's health is PLAYER_START_HP less the number of
\* player:damage events that reached applyDamage, never below 0, and
\* game:over has been published once if the health is 0 and not at all
\* otherwise; after it the session is over.
C8_FiveHitsOneGameOver ==
  /\ obs.gameOvers \in {0, 1}
  /\ obs.gameOvers = 1 => state \in {"gameover", "menu"}
  /\ PlayerStored(components) =>
        /\ PlayerHealth(components).current = PLAYER_START_HP - obs.hits
        /\ PlayerHealth(components).current >= 0
        /\ obs.gameOvers = (IF PlayerHealth(components).current <= 0 THEN 1 ELSE 0)

\* the fifth event has brought the health to 0 and the game is over
C8_Witness ==
  /\ PlayerStored(components)
  /\ obs.hits = PLAYER_START_HP
  /\ PlayerHealth(components).current = 0
  /\ obs.gameOvers = 1
  /\ state = "gameover"

-----------------------------------------------------------------------------
(* The session state as a gate *)

\* C10: a step taken between two frames, which starts and ends in one and
\* the same state other than Playing within one session, leaves the entity
\* store, the wave counters and the wave pause timer, the bombs, the shield
\* and the pending pick-ups as they are (as the claim states it; the rest of
\* the frame in which the state left Playing is not held against it).
C10_StoreRestsUnlessPlaying ==
  [][(/\ pc = "idle"
      /\ state # "playing"
      /\ state' = state
      /\ obs'.session = obs.session)
       => UNCHANGED <<storeVars, waveVars, bombs, shieldHits, pendingSpawns>>]_vars

-----------------------------------------------------------------------------
(* Waiting and scheduling *)

\* C11: within a session every entity is created while the systems of a tick
\* execute: no step taken between two frames or in the input step creates
\* an entity, there being no deferred callback that acts on the game (as the
\* claim states it).
C11_CreationOnlyInTick ==
  [][(nextEntityId' > nextEntityId /\ obs'.session = obs.session)
       => pc = "systems"]_vars

-----------------------------------------------------------------------------
(* Session reset *)

\* C12: World.clear(), which only startGame (game:start) and the game:menu
\* handler call, is never called while the systems of a tick execute: a
\* step that starts a session or returns to the menu begins between two
\* frames (a click, or the input step that opens a frame).
C12_ClearOnlyBetweenTicks ==
  [][/\ ~obs'.clearedInTick
     /\ (obs'.session # obs.session \/ (state' = "menu" /\ state # "menu"))
          => pc = "idle"]_vars

\* after a game over the store was cleared and a second session started
\* between two frames
C12_Witness ==
  /\ pc = "idle"
  /\ state = "playing"
  /\ obs.session = 2
  /\ obs.hits = 0
  /\ playerEntity = 0
  /\ currentWave = 1
  /\ toDestroy = <<>>

-----------------------------------------------------------------------------
(* The frame *)

\* C13: the systems of a playing tick consume the input snapshot that the
\* input step of the same tick produced: when the system updates are about
\* to run, and until the flush that ends the tick, the snapshot handed to
\* them is the state InputManager.update has just computed (as the claim
\* states it; the order of the systems and the single flush are the shape
\* of SystemsStep and FlushStep).
C13_TickUsesItsOwnInput ==
  pc = "systems" => (state = "playing" /\ input = inputState)

-----------------------------------------------------------------------------
(* Properties of the event bus *)

\* the callbacks a call of emit invoked itself, in order
OwnCalls == SelectSeq(delivered, LAMBDA r : r.depth = 0)

\* C14: when emit(event, data) has returned, the callbacks it invoked itself
\* are exactly those subscribed to event when it was called, each once, in
\* subscription order and each with data; and whatever ran meanwhile (the
\* emits made by callbacks included) ran for an event it was subscribed to.
C14_EmitReachesItsSubscribers ==
  lastEmit.event # "none" =>
    /\ [i \in 1 .. Len(OwnCalls) |-> OwnCalls[i].callback]
         = lastEmit.before[lastEmit.event]
    /\ \A i \in 1 .. Len(OwnCalls) :
         /\ OwnCalls[i].event = lastEmit.event
         /\ OwnCalls[i].data = lastEmit.data
    /\ \A i \in 1 .. Len(delivered) :
         delivered[i].callback \in Range(lastEmit.before[delivered[i].event])

\* emit("x") ran with two subscribers of "x", the relay among them, while
\* "y" had a subscriber that "x" did not have
C14_Witness ==
  /\ lastEmit.event = "x"
  /\ Len(lastEmit.before["x"]) >= 2
  /\ Relay \in Range(lastEmit.before["x"])
  /\ Range(lastEmit.before["y"]) \ Range(lastEmit.before["x"]) # {}
  /\ \E i \in 1 .. Len(delivered) : delivered[i].depth = 1

\* the callbacks other than the one of the unsubscribe function last
\* called that were subscribed to an event when it was called
Others(event) ==
  {c \in Range(disposed.before[event]) :
     event # disposed.event \/ c # disposed.callback}

\* C28: after a call of an unsubscribe function returned by on(event, cb),
\* the first or a later one and after any on, off and clear calls, every
\* other callback that was subscribed to an event is still subscribed to it
\* and was invoked by an emit for it made since; and cb is not subscribed to
\* the event any more, unless the subscription had been removed by off or
\* clear before and cb has been subscribed anew.
C28_DisposerRemovesOnlyItsSubscription ==
  disposed.set # 0 =>
    /\ \A event \in Events : Others(event) \subseteq Range(listeners[event])
    /\ lastEmit.before = listeners /\ lastEmit.event # "none" =>
         \A c \in Others(lastEmit.event) :
           \E i \in DOMAIN delivered :
             delivered[i].callback = c /\ delivered[i].event = lastEmit.event
    /\ disposed.held => disposed.callback \notin Range(listeners[disposed.event])

\* the bullets and pick-ups created in a run with fire from both sides
MaxCrossfire == 4

\* wave 10 with the player shooting at the gunship, the gunship shooting
\* back and pick-ups dropping
InitCrossfire ==
  /\ InitLateProgram
  /\ limits = [waveCap |-> LateWave, sessions |-> 1, harm |-> FALSE,
               created |-> MaxCrossfire, shots |-> 1,
               controls |-> {"Space", "Escape"}, drops |-> {SPREAD_SHOT},
               cull |-> TRUE]

SpecCrossfire == InitCrossfire /\ [][NextLate]_vars

-----------------------------------------------------------------------------
(* The weapon on its own: sessions in which WeaponSystem.update runs with  *)
(* the fire button held or not and spread-shot pick-ups are applied at any *)
(* moment, without the enemies acting.  A session is left through pause    *)
(* and the menu.                                                            *)

\* the highest identifier handed out in a session
MaxStored == 14

\* the most pick-ups applied in a session
MaxPickups == 4

WeaponKeeps ==
  /\ UNCHANGED <<inputState, input, dt, collisions, pc>>
  /\ FrameKeeps

WeaponSystemUpdate ==
  /\ state = "playing"
  /\ \E playerFiring \in BOOLEAN :
     \E s1 \in {WeaponUpdate(Cur, FrameDt, playerFiring, playerEntity)} :
        /\ s1.w.nextEntityId <= MaxStored
        /\ Commit(s1)
  /\ WeaponKeeps

PowerUpApplied ==
  /\ state = "playing"
  /\ obs.pickups < MaxPickups
  /\ \E type \in {SPREAD_SHOT, SHIELD, BOMB} : Commit(ApplyPowerUp(Cur, type))
  /\ WeaponKeeps

WeaponSessionStart ==
  /\ state = "menu"
  /\ obs.session < limits.sessions
  /\ Commit(OnGameStart(Cur))
  /\ WeaponKeeps

WeaponSessionPause ==
  /\ state = "playing"
  /\ Commit(OnInputPause(Cur))
  /\ WeaponKeeps

WeaponSessionResume ==
  /\ state = "paused"
  /\ Commit(OnGameResume(Cur))
  /\ WeaponKeeps

WeaponSessionMenu ==
  /\ state = "paused"
  /\ Commit(OnGameMenu(Cur))
  /\ WeaponKeeps

InitWeapon ==
  /\ InitProgram /\ InitHarness
  /\ limits = [waveCap |-> 1, sessions |-> MaxSessions, harm |-> FALSE,
               created |-> 0, shots |-> 0, controls |-> {}, drops |-> {},
               cull |-> FALSE]

NextWeapon ==
  \/ WeaponSystemUpdate
  \/ PowerUpApplied
  \/ WeaponSessionStart
  \/ WeaponSessionPause
  \/ WeaponSessionResume
  \/ WeaponSessionMenu

SpecWeapon == InitWeapon /\ [][NextWeapon]_vars

-----------------------------------------------------------------------------
(* core/ecs.ts : the World on its own, its methods called in any order.    *)
(* Components are added to any identifier handed out, live or not;         *)
(* destroyEntity is called with any such identifier, also twice.           *)

\* the most identifiers handed out between two calls of clear
MaxEntities == 4

\* the longest list of pending destructions
MaxDestroy == 2

\* the component types attached
StoreTags == {"Transform", "Collider"}

StoreCommit(w, order) ==
  /\ nextEntityId' = w.nextEntityId
  /\ entities' = w.entities
  /\ components' = w.components
  /\ toDestroy' = w.toDestroy
  /\ obs' = [obs EXCEPT !.order = order]
  /\ UNCHANGED <<state, previousState, playerEntity, bombs, shieldHits,
                 waveVars, difficultyVars, pendingSpawns, menuVars, inputState, timers, input,
                 dt, collisions, pc, harnessVars, busVars, scoreVars, effectVars, aiVars, limits>>

StoreCreate ==
  /\ nextEntityId < MaxEntities
  /\ StoreCommit(CreateEntity(World), Append(obs.order, nextEntityId))

StoreAdd ==
  \E e \in 0 .. (nextEntityId - 1) : \E type \in StoreTags :
    StoreCommit(AddComponent(World, e, type, Somewhere), obs.order)

StoreDestroy ==
  /\ Len(toDestroy) < MaxDestroy
  /\ \E e \in 0 .. (nextEntityId - 1) :
       StoreCommit(DestroyEntity(World, e), obs.order)

StoreFlush ==
  StoreCommit(Flush(World),
              SelectSeq(obs.order, LAMBDA e : e \notin Range(toDestroy)))

StoreClear == StoreCommit(Clear(World), <<>>)

InitStore ==
  /\ InitProgram /\ InitHarness
  /\ limits = [waveCap |-> 0, sessions |-> 0, harm |-> FALSE,
               created |-> 0, shots |-> 0, controls |-> {}, drops |-> {},
               cull |-> FALSE]

NextStore ==
  \/ StoreCreate
  \/ StoreAdd
  \/ StoreDestroy
  \/ StoreFlush
  \/ StoreClear

SpecStore == InitStore /\ [][NextStore]_vars

-----------------------------------------------------------------------------
(* gameplay/collision-system.ts : ScoreSystem on its own.  The frame       *)
(* specifications do not follow the score; here addScore (the score:add    *)
(* subscriber), update and reset are called in any order.                  *)

\* the highest score followed
MaxScore == 350

\* the values the program publishes with score:add
ScoreValues == {SCORE_BASIC_ENEMY, SCORE_TOUGH_ENEMY}

\* frame times of 0.025 s, 0.05 s and 0.1 s (the cap of the frame loop)
DtChoices == {1, 2, FrameDt}

ScoreFields ==
  [score |-> score, displayScore |-> displayScore, multiplier |-> multiplier,
   multiplierTimer |-> multiplierTimer, highScore |-> highScore]

\* update without the floor of one point per call
ScoreUpdate_Fractional(sc, d) ==
  LET diff == sc.score - sc.displayScore
      increment == (diff * 5 * d) \div UnitsPerSecond
      shown == IF sc.displayScore < sc.score
               THEN Min2(sc.score, sc.displayScore + increment)
               ELSE sc.displayScore
      timed == IF sc.multiplierTimer > 0 THEN sc.multiplierTimer - d
               ELSE sc.multiplierTimer
  IN [sc EXCEPT !.displayScore = shown,
                !.multiplierTimer = IF sc.multiplierTimer > 0 /\ timed <= 0
                                    THEN 0 ELSE timed,
                !.multiplier = IF sc.multiplierTimer > 0 /\ timed <= 0
                               THEN 1 ELSE @]

\* ScoreSystem.update(dt): Math.floor(diff * 5 * dt) with dt = d / 40 s
ScoreUpdate(sc, d) ==
  LET diff == sc.score - sc.displayScore
      increment == Max2(1, (diff * 5 * d) \div UnitsPerSecond)
      shown == IF sc.displayScore < sc.score
               THEN Min2(sc.score, sc.displayScore + increment)
               ELSE sc.displayScore
      timed == IF sc.multiplierTimer > 0 THEN sc.multiplierTimer - d
               ELSE sc.multiplierTimer
  IN [sc EXCEPT !.displayScore = shown,
                !.multiplierTimer = IF sc.multiplierTimer > 0 /\ timed <= 0
                                    THEN 0 ELSE timed,
                !.multiplier = IF sc.multiplierTimer > 0 /\ timed <= 0
                               THEN 1 ELSE @]

\* ScoreSystem.addScore(value)
AddScore(sc, value) ==
  LET total == sc.score + value * sc.multiplier
  IN [sc EXCEPT !.score = total, !.highScore = Max2(@, total)]

\* a reset that leaves the displayed score
ScoreReset_KeepsDisplay(sc) ==
  [sc EXCEPT !.score = 0, !.multiplier = 1, !.multiplierTimer = 0]

\* ScoreSystem.reset(): highScore stays
ScoreReset(sc) ==
  [sc EXCEPT !.score = 0, !.displayScore = 0, !.multiplier = 1,
             !.multiplierTimer = 0]

\* the fields written back; settle starts again whenever the score changes
\* and counts the calls of update that found the display behind
ScoreAssign(sc, ticked) ==
  /\ score' = sc.score
  /\ displayScore' = sc.displayScore
  /\ multiplier' = sc.multiplier
  /\ multiplierTimer' = sc.multiplierTimer
  /\ highScore' = sc.highScore
  /\ settle' = IF sc.score # score
               THEN [gap |-> sc.score - sc.displayScore, ticks |-> 0]
               ELSE IF ticked /\ displayScore < score
               THEN [settle EXCEPT !.ticks = @ + 1]
               ELSE settle

ScoreCommit(sc, ticked) ==
  /\ ScoreAssign(sc, ticked)
  /\ UNCHANGED <<storeVars, state, previousState, playerEntity, bombs,
                 shieldHits, waveVars, difficultyVars, pendingSpawns, menuVars, inputState,
                 timers, input, dt, collisions, pc, harnessVars, busVars,
                 effectVars, aiVars, obs,
                 limits>>

ScoreSystemAdd ==
  \E value \in ScoreValues :
    /\ score + value * multiplier <= MaxScore
    /\ ScoreCommit(AddScore(ScoreFields, value), FALSE)

ScoreSystemUpdate ==
  \E d \in DtChoices : ScoreCommit(ScoreUpdate(ScoreFields, d), TRUE)

ScoreSystemReset == ScoreCommit(ScoreReset(ScoreFields), FALSE)

InitScoreAlone ==
  /\ InitProgram /\ InitHarness
  /\ limits = [waveCap |-> 0, sessions |-> 0, harm |-> FALSE,
               created |-> 0, shots |-> 0, controls |-> {}, drops |-> {},
               cull |-> FALSE]

NextScore == ScoreSystemAdd \/ ScoreSystemUpdate \/ ScoreSystemReset

SpecScore == InitScoreAlone /\ [][NextScore]_vars

-----------------------------------------------------------------------------
(* EnemyAISystem (src/unnamed/part_006) with the record it keeps for every *)
(* enemy, and MovementSystem with its integration.  Positions are whole    *)
(* pixels, velocities whole pixels per second; the bullets an enemy fires  *)
(* are created Somewhere, as in the whole-program specifications.          *)

\* diveTarget: null
NoTarget == [none |-> TRUE, x |-> 0, y |-> 0]

\* Math.random() at the two ends of its range: 0, and as close to 1 as it
\* gets; every call of one tick returns the same end
Draws == {0, 1}

\* the record update creates for an entity it has none for
NewAIState(r) ==
  [fireCooldown |-> r * 2 * UnitsPerSecond, behaviorTimer |-> 0, phase |-> 0,
   strafeDirX |-> IF r = 1 THEN 1 ELSE -1, diveTarget |-> NoTarget]

\* 1000 * Math.sin(c / 100), by Bhaskara's rational approximation
HalfTurn == 314

Sine(c) ==
  LET y == c % (2 * HalfTurn)
      z == IF y <= HalfTurn THEN y ELSE y - HalfTurn
      arc == (16000 * z * (HalfTurn - z))
               \div (5 * HalfTurn * HalfTurn - 4 * z * (HalfTurn - z))
  IN IF y <= HalfTurn THEN arc ELSE 0 - arc

\* Math.sqrt, rounded down
Sqrt(n) == CHOOSE r \in 0 .. (SCREEN_WIDTH + SCREEN_HEIGHT) : r * r <= n /\ n < (r + 1) * (r + 1)

\* n calls of fireEnemyBullet / fireDirectionalBullet
RECURSIVE FireEnemyBullets(_, _)
FireEnemyBullets(s, n) ==
  IF n = 0 THEN s ELSE FireEnemyBullets(FireEnemyBullet(s), n - 1)

\* the unit's record and Velocity written back
UnitWrite(s, e, ai, v) ==
  [s EXCEPT !.aiStates = [k \in DOMAIN s.aiStates \cup {e} |->
                            IF k = e THEN ai ELSE s.aiStates[k]],
            !.w.components["Velocity"][e] = v]

\* if (ai.fireCooldown <= 0) { ai.fireCooldown = ...; fire }
FireWhenReady(s, e, reload, shots) ==
  IF s.aiStates[e].fireCooldown <= 0
  THEN FireEnemyBullets([s EXCEPT !.aiStates[e].fireCooldown = reload], shots)
  ELSE s

UpdateSwarmDrone(s, e, r) ==
  LET ai == s.aiStates[e]
      v == [GetComponent(s.w, e, "Velocity") EXCEPT
              !.vx = (Sine(ai.behaviorTimer * 5) * 100) \div 1000, !.vy = 60]
  IN FireWhenReady(UnitWrite(s, e, ai, v), e,
                   (3 * UnitsPerSecond) \div 2 + r * UnitsPerSecond, 1)

\* the stinger in phase 1 aims at the player again on every tick
UpdateSwarmStinger_ReAims(s, e) ==
  LET ai == s.aiStates[e]
      t == GetComponent(s.w, e, "Transform")
      v == GetComponent(s.w, e, "Velocity")
  IN IF ai.phase = 0
     THEN LET v1 == [v EXCEPT !.vx = (Sine((ai.behaviorTimer * 15) \div 2) * 80) \div 1000,
                              !.vy = 50]
          IN IF t.y > 200 /\ ai.behaviorTimer > (3 * UnitsPerSecond) \div 2
             THEN UnitWrite(s, e, [ai EXCEPT !.phase = 1,
                                             !.diveTarget = [none |-> FALSE, x |-> s.playerX,
                                                             y |-> s.playerY]], v1)
             ELSE UnitWrite(s, e, ai, v1)
     ELSE LET dx == s.playerX - t.x
              dy == s.playerY - t.y
              len == Sqrt(dx * dx + dy * dy)
              aimed == [ai EXCEPT !.diveTarget = [none |-> FALSE, x |-> s.playerX,
                                                  y |-> s.playerY]]
          IN IF len > 0
             THEN UnitWrite(s, e, aimed, [v EXCEPT !.vx = (dx * 350) \div len,
                                                   !.vy = (dy * 350) \div len])
             ELSE UnitWrite(s, e, aimed, v)

UpdateSwarmStinger(s, e) ==
  LET ai == s.aiStates[e]
      t == GetComponent(s.w, e, "Transform")
      v == GetComponent(s.w, e, "Velocity")
  IN IF ai.phase = 0
     THEN LET v1 == [v EXCEPT !.vx = (Sine((ai.behaviorTimer * 15) \div 2) * 80) \div 1000,
                              !.vy = 50]
          IN IF t.y > 200 /\ ai.behaviorTimer > (3 * UnitsPerSecond) \div 2
             THEN UnitWrite(s, e, [ai EXCEPT !.phase = 1,
                                             !.diveTarget = [none |-> FALSE, x |-> s.playerX,
                                                             y |-> s.playerY]], v1)
             ELSE UnitWrite(s, e, ai, v1)
     ELSE IF ai.diveTarget.none THEN s
     ELSE LET dx == ai.diveTarget.x - t.x
              dy == ai.diveTarget.y - t.y
              len == Sqrt(dx * dx + dy * dy)
          IN IF len > 0
             THEN UnitWrite(s, e, ai, [v EXCEPT !.vx = (dx * 350) \div len,
                                                !.vy = (dy * 350) \div len])
             ELSE s

\* the descent to the line top and the strafe below it, shared by
\* updateSwarmHiveMother, updateArmadaGunship and updateArmadaDreadnought
Strafe(s, e, top, descent, speed, margin) ==
  LET ai == s.aiStates[e]
      t == GetComponent(s.w, e, "Transform")
      v == GetComponent(s.w, e, "Velocity")
  IN IF t.y < top
     THEN UnitWrite(s, e, ai, [v EXCEPT !.vy = descent])
     ELSE UnitWrite(s, e,
                    IF t.x < margin \/ t.x > SCREEN_WIDTH - margin
                    THEN [ai EXCEPT !.strafeDirX = 0 - @]
                    ELSE ai,
                    [v EXCEPT !.vy = 0, !.vx = ai.strafeDirX * speed])

\* the drone a hive mother asks for (enemy:spawnDrone) has no subscriber
UpdateSwarmHiveMother(s, e) ==
  FireWhenReady(Strafe(s, e, 100, 40, 60, 80), e, 2 * UnitsPerSecond, 3)

UpdateArmadaSentinel(s, e, r) ==
  LET v == [GetComponent(s.w, e, "Velocity") EXCEPT !.vx = 0, !.vy = 30]
  IN FireWhenReady(UnitWrite(s, e, s.aiStates[e], v), e,
                   (5 * UnitsPerSecond) \div 2 + r * UnitsPerSecond, 1)

\* the three shots of a burst are handed to setTimeout
UpdateArmadaGunship(s, e) ==
  LET s1 == Strafe(s, e, 120, 50, 120, 60)
  IN IF s1.aiStates[e].fireCooldown <= 0
     THEN [s1 EXCEPT !.aiStates[e].fireCooldown = (18 * UnitsPerSecond) \div 10,
                     !.timers = @ + BURST_SHOTS]
     ELSE s1

UpdateArmadaDreadnought(s, e) ==
  FireWhenReady(Strafe(s, e, 80, 30, 40, 100), e, 3 * UnitsPerSecond, 5)

\* one pass of the loop of update over the enemies
UnitUpdate(s, e, d, r) ==
  LET ai == IF e \in DOMAIN s.aiStates THEN s.aiStates[e] ELSE NewAIState(r)
      s1 == UnitWrite(s, e, [ai EXCEPT !.fireCooldown = @ - d,
                                       !.behaviorTimer = @ + d],
                      GetComponent(s.w, e, "Velocity"))
      behaviorId == GetComponent(s.w, e, "Enemy").behaviorId
  IN CASE behaviorId = SWARM_DRONE -> UpdateSwarmDrone(s1, e, r)
       [] behaviorId = SWARM_STINGER -> UpdateSwarmStinger(s1, e)
       [] behaviorId = SWARM_HIVE_MOTHER -> UpdateSwarmHiveMother(s1, e)
       [] behaviorId = ARMADA_SENTINEL -> UpdateArmadaSentinel(s1, e, r)
       [] behaviorId = ARMADA_GUNSHIP -> UpdateArmadaGunship(s1, e)
       [] behaviorId = ARMADA_DREADNOUGHT -> UpdateArmadaDreadnought(s1, e)
       [] OTHER -> s1

RECURSIVE UnitsUpdate(_, _, _, _, _)
UnitsUpdate(s, enemies, i, d, r) ==
  IF i > Len(enemies) THEN s
  ELSE UnitsUpdate(UnitUpdate(s, enemies[i], d, r), enemies, i + 1, d, r)

\* the records of the entities that do not hold Enemy stay, as if the
\* clean-up loop of update were not there
EnemyAIUpdate_KeepsRecords(s, d, r) ==
  UnitsUpdate(s, Query(s.w, {"Transform", "Velocity", "Enemy"}), 1, d, r)

\* EnemyAISystem.update
EnemyAIUpdate(s, d, r) ==
  LET s1 == UnitsUpdate(s, Query(s.w, {"Transform", "Velocity", "Enemy"}), 1, d, r)
  IN [s1 EXCEPT !.aiStates =
        [k \in {e \in DOMAIN s1.aiStates : HasComponent(s1.w, e, "Enemy")} |->
           s1.aiStates[k]]]

\* the player:position subscriber of EnemyAISystem.init
OnPlayerPosition(s, data) == [s EXCEPT !.playerX = data.x, !.playerY = data.y]

\* MovementSystem.update, lines 17-24: transform.x += velocity.vx * dt
Integrate(s, d) ==
  LET moved == Range(Query(s.w, {"Transform", "Velocity"}))
      at == s.w.components["Transform"]
      by == s.w.components["Velocity"]
  IN [s EXCEPT !.w.components["Transform"] =
        [e \in DOMAIN at |->
           IF e \in moved
           THEN [at[e] EXCEPT !.x = @ + (by[e].vx * d) \div UnitsPerSecond,
                              !.y = @ + (by[e].vy * d) \div UnitsPerSecond]
           ELSE at[e]]]

\* PlayerMovementSystem.update, lines 27-32: the player is moved by the
\* stick and kept SCREEN_MARGIN away from the edges
SCREEN_MARGIN == 20

Steer(s, move, d) ==
  IF s.playerEntity = NoEntity \/ ~HasComponent(s.w, s.playerEntity, "Transform")
  THEN s
  ELSE LET t == GetComponent(s.w, s.playerEntity, "Transform")
           x == t.x + (move.x * PLAYER_SPEED * d) \div UnitsPerSecond
           y == t.y + (move.y * PLAYER_SPEED * d) \div UnitsPerSecond
       IN [s EXCEPT !.w.components["Transform"][s.playerEntity] =
             [t EXCEPT !.x = Max2(SCREEN_MARGIN, Min2(SCREEN_WIDTH - SCREEN_MARGIN, x)),
                       !.y = Max2(SCREEN_MARGIN, Min2(SCREEN_HEIGHT - SCREEN_MARGIN, y))]]

\* const playerPos = playerMovement.getPosition(world);
\* if (playerPos) eventBus.emit('player:position', playerPos)
EmitPlayerPosition(s) ==
  IF s.playerEntity = NoEntity \/ ~HasComponent(s.w, s.playerEntity, "Transform")
  THEN s
  ELSE OnPlayerPosition(s, GetComponent(s.w, s.playerEntity, "Transform"))

-----------------------------------------------------------------------------
(* The frame loop with the EnemyAISystem followed: the systems of a tick   *)
(* with the position event, the steering of the player, the AI records and *)
(* the integration of the velocities.                                      *)

\* ticks followed in one session
MaxAITicks == 12

\* the stick during a tick
Still == [x |-> 0, y |-> 0]

CurAI == Cur @@ [aiStates |-> aiStates, playerX |-> playerX, playerY |-> playerY]

AICommit(s) ==
  /\ Commit(s)
  /\ aiStates' = s.aiStates
  /\ playerX' = s.playerX
  /\ playerY' = s.playerY

\* the AI updates every enemy has gone through, recorded in the observations
CountUpdates(s) ==
  LET enemies == Range(Query(s.w, {"Transform", "Velocity", "Enemy"}))
      before == s.obs.updates
  IN [s EXCEPT !.obs.ticks = @ + 1,
               !.obs.updates =
                  [e \in DOMAIN before \cup enemies |->
                     (IF e \in DOMAIN before THEN before[e] ELSE 0)
                       + (IF e \in enemies THEN 1 ELSE 0)]]

\* the systems of one tick, as SystemsStep; limits.moves is what the player
\* may do with the stick, limits.ticks the ticks followed in a session
AISystemsStep ==
  /\ pc = "systems"
  /\ obs.ticks < limits.ticks
  /\ \E move \in limits.moves :
     \E r \in Draws :
     \E s1 \in {PlayerUpdate(Steer(EmitPlayerPosition(CurAI), move, dt), dt)} :
     \E s2 \in {EnemyAIUpdate(CountUpdates([s1 EXCEPT
                                !.obs.sinceDamage = Min2(@ + dt, INVINCIBILITY_DURATION)]),
                              dt, r)} :
     \E s3 \in {WeaponUpdate(s2, dt, input.fire, playerEntity)} :
     \E outside \in CullChoices(s3.w) :
     \E s4 \in {MovementUpdate(Integrate(s3, dt), outside)} :
     \E hit \in HitChoices(s4.w) :
     \E pairs \in {PairList(s4.w, hit)} :
     \E drops \in DropLists(pairs) :
     \E s6 \in {PowerUpUpdate(DamageUpdate(s4, pairs, drops))} :
     \E s7 \in {[s6 EXCEPT
                   !.obs.created = @ + (s6.w.nextEntityId - nextEntityId),
                   !.obs.pauseTicks = IF s6.obs.zeroPending > 0 THEN @ + dt ELSE @]} :
     \E s8 \in {WaveUpdate(s7, dt)} :
     \E s9 \in {IF s8.currentWave # s7.currentWave THEN RecordSpawn(s7, s8) ELSE s8} :
        /\ s7.obs.created <= limits.created
        /\ s8.currentWave <= limits.waveCap
        /\ AICommit(s9)
        /\ collisions' = pairs
  /\ pc' = "flush"
  /\ UNCHANGED <<inputState, input, dt>>
  /\ UNCHANGED <<harnessVars, busVars, scoreVars, effectVars, limits>>

\* sessions started, paused and left from the pause screen, the player
\* touching nothing but the pause key and the bomb key

InitAI ==
  /\ InitProgram /\ InitHarness
  /\ limits = [waveCap |-> 1, sessions |-> MaxSessions, harm |-> FALSE,
               created |-> 6, shots |-> 0, controls |-> {"Escape", "KeyE"},
               drops |-> {}, cull |-> TRUE, moves |-> {Still},
               ticks |-> MaxAITicks]

NextAI ==
  \/ InputStep
  \/ AISystemsStep
  \/ FlushStep
  \/ Click

SpecAI == InitAI /\ [][NextAI]_vars

\* ticks followed while a unit strafes
MaxStrafeTicks == 110

\* bullets a unit fires meanwhile
MaxStrafeShots == 40

MotherIndex ==
  CHOOSE i \in DOMAIN WaveRoster(LateWave) :
    WaveRoster(LateWave)[i].behaviorId = SWARM_HIVE_MOTHER

\* the wave of the first dreadnought
DreadnoughtWave == 2 * MINIBOSS_INTERVAL

DreadnoughtIndex ==
  CHOOSE i \in DOMAIN WaveRoster(DreadnoughtWave) :
    WaveRoster(DreadnoughtWave)[i].behaviorId = ARMADA_DREADNOUGHT

\* a session in which the gunship or the hive mother of wave 10, or the
\* dreadnought of wave 20, is the last unit left, just spawned above the
\* screen; the player touches nothing and nothing reaches the player
InitStrafe ==
  /\ \/ InitSession(SessionLeft(LateWave, GunshipIndex))
     \/ InitSession(SessionLeft(LateWave, MotherIndex))
     \/ InitSession(SessionLeft(DreadnoughtWave, DreadnoughtIndex))
  /\ limits = [waveCap |-> DreadnoughtWave, sessions |-> 1, harm |-> FALSE,
               created |-> MaxStrafeShots, shots |-> 0, controls |-> {},
               drops |-> {}, cull |-> FALSE, moves |-> {Still},
               ticks |-> MaxStrafeTicks]

NextStrafe ==
  \/ InputStep
  \/ AISystemsStep
  \/ FlushStep
  \/ TimerFire

SpecStrafe == InitStrafe /\ [][NextStrafe]_vars

\* ticks followed while a stinger drifts down and dives
MaxDiveTicks == 62

\* the first wave with a stinger
StingerWave == 4

StingerIndex ==
  CHOOSE i \in DOMAIN WaveRoster(StingerWave) :
    WaveRoster(StingerWave)[i].behaviorId = SWARM_STINGER

\* the stick held to the left, let go, or held to the right
Sideways == {[x |-> -1, y |-> 0], Still, [x |-> 1, y |-> 0]}

\* a session in which the stinger of wave 4 is the last unit left, just
\* spawned above the screen; the player moves to and fro and nothing
\* reaches the player
InitDive ==
  /\ InitSession(SessionLeft(StingerWave, StingerIndex))
  /\ limits = [waveCap |-> StingerWave, sessions |-> 1, harm |-> FALSE,
               created |-> 0, shots |-> 0, controls |-> {}, drops |-> {},
               cull |-> FALSE, moves |-> Sideways, ticks |-> MaxDiveTicks]

NextDive ==
  \/ InputStep
  \/ AISystemsStep
  \/ FlushStep

SpecDive == InitDive /\ [][NextDive]_vars

\* ticks followed while a unit descends, and the bullets it fires meanwhile
MaxDescentTicks == 250

MaxDescentShots == 12

\* the first wave with a sentinel
SentinelWave == 7

SentinelIndex ==
  CHOOSE i \in DOMAIN WaveRoster(SentinelWave) :
    WaveRoster(SentinelWave)[i].behaviorId = ARMADA_SENTINEL

\* a session in which the first drone of wave 1, or the sentinel of wave 7,
\* is the last unit left, just spawned above the screen; the player does
\* not shoot it and nothing reaches the player
InitDescent ==
  /\ \/ InitSession(SessionLeft(1, 1))
     \/ InitSession(SessionLeft(SentinelWave, SentinelIndex))
  /\ limits = [waveCap |-> SentinelWave, sessions |-> 1, harm |-> FALSE,
               created |-> MaxDescentShots, shots |-> 0, controls |-> {},
               drops |-> {}, cull |-> FALSE, moves |-> {Still},
               ticks |-> MaxDescentTicks]

NextDescent ==
  \/ InputStep
  \/ AISystemsStep
  \/ FlushStep

SpecDescent == InitDescent /\ [][NextDescent]_vars

-----------------------------------------------------------------------------
(* One tick of collisionSystem.update and damageSystem.update on wave 7,   *)
(* in the third or the fourth tick after its start, when the first drone   *)
(* (from (160, -40), 60 px/s down on a sine) passes the sentinel (from     *)
(* (200, -30), 30 px/s down), with a player bullet somewhere around them.  *)

\* the drone and the sentinel in the third and in the fourth tick
Passing ==
  {[drone |-> [x |-> 171, y |-> -22], sentinel |-> [x |-> 200, y |-> -21]],
   [drone |-> [x |-> 178, y |-> -16], sentinel |-> [x |-> 200, y |-> -18]]}

\* where the bullet may be
BulletSpots ==
  {[x |-> x, y |-> y] : x \in {150, 160, 171, 186, 193, 200, 215, 230, 260, 400},
                        y \in {-60, -40, -20, -10, 10, 40}}

\* the session with the first drone and the sentinel of wave 7 left and one
\* player bullet in flight, at the given positions
PassingSession(drone, sentinel, bullet) ==
  LET ses == SessionLeft(SentinelWave, SentinelIndex)
      droneId == 1 + SpentBefore(SentinelWave)
      sentinelId == droneId + (SentinelIndex - 1)
      bulletId == ses.w.nextEntityId
      s1 == SpawnWave([ses EXCEPT !.w.nextEntityId = droneId],
                      <<WaveRoster(SentinelWave)[1]>>)
      s2 == FireWeapon([s1 EXCEPT !.w.nextEntityId = bulletId, !.enemiesAlive = 2],
                       GetComponent(s1.w, s1.playerEntity, "Weapon"))
  IN [s2 EXCEPT !.w.components["Transform"][droneId].x = drone.x,
                !.w.components["Transform"][droneId].y = drone.y,
                !.w.components["Transform"][sentinelId].x = sentinel.x,
                !.w.components["Transform"][sentinelId].y = sentinel.y,
                !.w.components["Transform"][bulletId].x = bullet.x,
                !.w.components["Transform"][bulletId].y = bullet.y,
                !.obs.flushed = @ \ {droneId}]

InitPassing ==
  /\ \E units \in Passing : \E bullet \in BulletSpots :
        InitSession(PassingSession(units.drone, units.sentinel, bullet))
  /\ limits = [waveCap |-> SentinelWave, sessions |-> 1, harm |-> TRUE,
               created |-> 1, shots |-> 0, controls |-> {}, drops |-> {},
               cull |-> FALSE]

\* collisionSystem.update(world) of the tick
PassingCollisions ==
  /\ pc = "idle"
  /\ collisions' = CollisionUpdate(World)
  /\ pc' = "damage"
  /\ UNCHANGED <<storeVars, state, previousState, playerEntity, bombs, shieldHits,
                 waveVars, difficultyVars, pendingSpawns, menuVars, inputState, timers, input,
                 dt, harnessVars, busVars, scoreVars, effectVars, aiVars, obs, limits>>

\* damageSystem.update(world, collisions) of the tick, no pick-up dropping
DamagePass ==
  /\ pc = "damage"
  /\ Commit(DamageUpdate(Cur, collisions, [i \in DOMAIN collisions |-> NoDrop]))
  /\ pc' = "flush"
  /\ UNCHANGED <<inputState, input, dt, collisions>>
  /\ FrameKeeps

NextPassing ==
  \/ PassingCollisions
  \/ DamagePass

SpecPassing == InitPassing /\ [][NextPassing]_vars

-----------------------------------------------------------------------------
(* MovementSystem.update on its own: a session with the player, a drone,   *)
(* an enemy bullet, a pick-up and a player bullet, one of them at the edge *)
(* of the region that update keeps, moving in or out.                      *)

\* positions on both sides of each border of the region
Edge ==
  {[x |-> x, y |-> SCREEN_HEIGHT \div 2] :
     x \in {-102, -100, SCREEN_WIDTH + 100, SCREEN_WIDTH + 102}}
  \cup {[x |-> SCREEN_WIDTH \div 2, y |-> y] :
          y \in {-102, -100, SCREEN_HEIGHT + 100, SCREEN_HEIGHT + 102}}
  \cup {[x |-> 5000, y |-> -5000]}

Drifts ==
  {[vx |-> 0, vy |-> 0], [vx |-> 20, vy |-> 0], [vx |-> -20, vy |-> 0],
   [vx |-> 0, vy |-> 20], [vx |-> 0, vy |-> -20]}

\* the frame times followed: a twentieth and a tenth of a second
FrameTimes == {FrameDt \div 2, FrameDt}

\* the session with the first drone of wave 1 left, a bullet the drone
\* fired, a pick-up and a bullet the player fired
MoversSession ==
  LET s1 == FireEnemyBullet(SessionLeft(1, 1))
      s2 == PowerUpUpdate(PowerUpOnSpawn(s1, SPREAD_SHOT))
  IN FireWeapon(s2, GetComponent(s2.w, s2.playerEntity, "Weapon"))

InitMovement ==
  /\ \E e \in MoversSession.w.entities : \E at \in Edge : \E by \in Drifts :
        InitSession([MoversSession EXCEPT
                       !.w.components["Transform"][e].x = at.x,
                       !.w.components["Transform"][e].y = at.y,
                       !.w.components["Velocity"][e] = by])
  /\ limits = [waveCap |-> 1, sessions |-> 1, harm |-> FALSE, created |-> 0,
               shots |-> 0, controls |-> {}, drops |-> {}, cull |-> TRUE]

MovementSystemUpdate_TestsBeforeMoving(s, d) ==
  LET moved == Query(s.w, {"Transform", "Velocity"})
      beyond(e) ==
        /\ OffScreen(GetComponent(s.w, e, "Transform"))
        /\ ~HasComponent(s.w, e, "Enemy")
        /\ ~HasComponent(s.w, e, "PlayerInput")
  IN [Integrate(s, d) EXCEPT !.w.toDestroy = @ \o SelectSeq(moved, beyond)]

\* MovementSystem.update(dt, world): every entity with a Transform and a
\* Velocity is moved, and destroyEntity is called for those that are then
\* beyond the margin and hold neither Enemy nor PlayerInput
MovementSystemUpdate(s, d) ==
  LET s1 == Integrate(s, d)
      moved == Query(s1.w, {"Transform", "Velocity"})
      beyond(e) ==
        /\ OffScreen(GetComponent(s1.w, e, "Transform"))
        /\ ~HasComponent(s1.w, e, "Enemy")
        /\ ~HasComponent(s1.w, e, "PlayerInput")
  IN [s1 EXCEPT !.w.toDestroy = @ \o SelectSeq(moved, beyond)]

\* movementSystem.update(dt, world) of one frame
MovementPass ==
  /\ pc = "idle"
  /\ \E d \in FrameTimes :
        /\ Commit(MovementSystemUpdate(Cur, d))
        /\ dt' = d
  /\ pc' = "flush"
  /\ UNCHANGED <<inputState, input, collisions>>
  /\ FrameKeeps

NextMovement == MovementPass

SpecMovement == InitMovement /\ [][NextMovement]_vars

-----------------------------------------------------------------------------
(* The cooldown of the weapon: sessions in which weaponSystem.update runs  *)
(* with frames of two lengths, the fire button held or not, and            *)
(* spread-shot pick-ups applied at any moment.  The cooldown is followed   *)
(* as the program keeps it.                                                *)

\* the ticks followed in a session
MaxCooldownTicks == 6

\* the highest identifier handed out in a session
MaxCooldownStored == 40

\* gameLoop, line 452: weaponSystem.update(world, dt, input.fire)
CooldownPass ==
  /\ state = "playing"
  /\ obs.ticks < MaxCooldownTicks
  /\ \E playerFiring \in BOOLEAN, d \in FrameTimes :
     \E s1 \in {WeaponCooldownUpdate(Cur, d, playerFiring, playerEntity)} :
        /\ s1.w.nextEntityId <= MaxCooldownStored
        /\ Commit([s1 EXCEPT
                     !.obs.ticks = @ + 1,
                     !.obs.sinceShot =
                        IF s1.w.nextEntityId # nextEntityId THEN 0
                        ELSE Min2(@ + d, LongAgo)])
        /\ input' = [EmptyInput EXCEPT !.fire = playerFiring]
        /\ dt' = d
  /\ UNCHANGED <<inputState, collisions, pc>>
  /\ FrameKeeps

InitCooldown ==
  /\ InitProgram /\ InitHarness
  /\ limits = [waveCap |-> 1, sessions |-> MaxSessions, harm |-> FALSE,
               created |-> 0, shots |-> 0, controls |-> {}, drops |-> {},
               cull |-> FALSE]

NextCooldown ==
  \/ CooldownPass
  \/ PowerUpApplied
  \/ WeaponSessionStart
  \/ WeaponSessionPause
  \/ WeaponSessionResume
  \/ WeaponSessionMenu

SpecCooldown == InitCooldown /\ [][NextCooldown]_vars

-----------------------------------------------------------------------------
(* The wave director through the waves: sessions in which the player       *)
(* clears the waves with bombs, picks up a bomb at any moment, pauses,     *)
(* leaves and starts again.  The events published by the latest step are  *)
(* kept in busLog.                                                         *)

\* the highest wave followed: it takes in the hive mother of wave 10, the
\* dreadnought of wave 20 and the escalations of waves 6, 11, 16 and 21
MaxWaves == 21

\* the units of each behavior id among the entities created by the step
\* from the current state to s
UnitsSpawned(s) ==
  LET fresh == s.w.entities
                 \ (IF s.obs.session # obs.session THEN {} ELSE entities)
  IN [b \in 0 .. 5 |->
        Cardinality({e \in fresh :
                       /\ HasComponent(s.w, e, "Enemy")
                       /\ GetComponent(s.w, e, "Enemy").behaviorId = b})]

WavesCommit(s) ==
  /\ s.currentWave <= MaxWaves
  /\ Commit(IF s.currentWave # currentWave \/ s.obs.session # obs.session
            THEN [s EXCEPT !.obs.spawned = UnitsSpawned(s)]
            ELSE s)
  /\ busLog' = s.log
  /\ UNCHANGED <<lastCall, nChanges, nPairs, dispatching, busVars, scoreVars, effectVars,
                 aiVars, limits, inputState, collisions, pc>>

\* one frame of a running session: the bomb key has gone down or not, the
\* wave director is updated and the store is flushed (gameLoop, lines 428,
\* 458 and 467)
WavesFrame ==
  /\ state = "playing"
  /\ \E bomb \in BOOLEAN :
     \E s1 \in {IF bomb THEN OnInputBomb(Cur) ELSE Cur} :
     \E s2 \in {WaveUpdate(s1, FrameDt)} :
        /\ bomb => bombs > 0
        /\ WavesCommit([s2 EXCEPT !.w = Flush(s2.w),
                                  !.obs.flushed = @ \cup Range(s2.w.toDestroy)])
        /\ input' = [EmptyInput EXCEPT !.bomb = bomb, !.bombJustPressed = bomb]
  /\ dt' = FrameDt

WavesBombPickup ==
  /\ state = "playing"
  /\ bombs < BOMB_LIMIT
  /\ WavesCommit(ApplyPowerUp(Cur, BOMB))
  /\ UNCHANGED <<input, dt>>

WavesStart ==
  /\ state = "menu"
  /\ obs.session < limits.sessions
  /\ WavesCommit(OnGameStart(Cur))
  /\ UNCHANGED <<input, dt>>

WavesPause ==
  /\ state = "playing"
  /\ WavesCommit(OnInputPause(Cur))
  /\ UNCHANGED <<input, dt>>

WavesResume ==
  /\ state = "paused"
  /\ WavesCommit(OnGameResume(Cur))
  /\ UNCHANGED <<input, dt>>

WavesMenu ==
  /\ state = "paused"
  /\ WavesCommit(OnGameMenu(Cur))
  /\ UNCHANGED <<input, dt>>

InitWaves ==
  /\ InitProgram /\ InitHarness
  /\ limits = [waveCap |-> MaxWaves, sessions |-> MaxSessions, harm |-> FALSE,
               created |-> 0, shots |-> 0, controls |-> {}, drops |-> {},
               cull |-> FALSE]

NextWaves ==
  \/ WavesFrame
  \/ WavesBombPickup
  \/ WavesStart
  \/ WavesPause
  \/ WavesResume
  \/ WavesMenu

SpecWaves == InitWaves /\ [][NextWaves]_vars

-----------------------------------------------------------------------------
(* The shield: sessions in which enemies touch the player at any moment,   *)
(* Shield pick-ups are applied at any moment and the invincibility window  *)
(* is counted down by the player's update.                                  *)

\* the Shield pick-ups applied in a session
MaxShields == 2

ShieldSessionStart ==
  /\ state \in {"menu", "gameover"}
  /\ obs.session < limits.sessions
  /\ Commit(OnGameStart(Cur))
  /\ WeaponKeeps

ShieldCollected ==
  /\ state = "playing"
  /\ obs.pickups < MaxShields
  /\ \E s1 \in {ApplyPowerUp(Cur, SHIELD)} :
       Commit([s1 EXCEPT !.obs.pickups = @ + 1])
  /\ WeaponKeeps

\* an Enemy-Player pair of the collision output
ShieldContact ==
  /\ state = "playing"
  /\ Commit(HandleEnemyContactPlayer(Cur, playerEntity))
  /\ WeaponKeeps

ShieldTick ==
  /\ state = "playing"
  /\ Commit(PlayerUpdate(Cur, FrameDt))
  /\ WeaponKeeps

InitShield ==
  /\ InitProgram /\ InitHarness
  /\ limits = [waveCap |-> 1, sessions |-> MaxSessions, harm |-> TRUE,
               created |-> 0, shots |-> 0, controls |-> {}, drops |-> {SHIELD},
               cull |-> FALSE]

NextShield ==
  \/ ShieldSessionStart
  \/ ShieldCollected
  \/ ShieldContact
  \/ ShieldTick

SpecShield == InitShield /\ [][NextShield]_vars

-----------------------------------------------------------------------------
(* The bombs and the shield: sessions in which the bomb key goes down in   *)
(* any state, Bomb and Shield pick-ups are applied, enemies fire and touch *)
(* the player, and the session is paused, left and started again.          *)

\* the highest identifier handed out in a session
MaxResourcesStored == 5

\* input:bomb, once in a frame
BombKey ==
  /\ toDestroy = << >>
  /\ Commit(OnInputBomb(Cur))
  /\ WeaponKeeps

\* powerup:collect for a Bomb pick-up
BombCollected ==
  /\ state = "playing"
  /\ bombs < BOMB_LIMIT \/ obs.pickups < MaxShields
  /\ \E s1 \in {ApplyPowerUp(Cur, BOMB)} :
       Commit([s1 EXCEPT !.obs.pickups = IF bombs < BOMB_LIMIT THEN @ ELSE @ + 1])
  /\ WeaponKeeps

\* an enemy fires
ResourcesEnemyFires ==
  /\ state = "playing"
  /\ toDestroy = << >>
  /\ nextEntityId < MaxResourcesStored
  /\ Commit(FireEnemyBullet(Cur))
  /\ WeaponKeeps

\* world.flush() at the end of the frame
ResourcesFlush ==
  /\ toDestroy # << >>
  /\ Commit([Cur EXCEPT !.w = Flush(World),
                        !.obs.flushed = @ \cup Range(toDestroy)])
  /\ WeaponKeeps

InitResources ==
  /\ InitProgram /\ InitHarness
  /\ limits = [waveCap |-> 1, sessions |-> MaxSessions, harm |-> TRUE,
               created |-> 0, shots |-> 0, controls |-> {},
               drops |-> {SHIELD, BOMB}, cull |-> FALSE]

NextResources ==
  \/ BombKey
  \/ BombCollected
  \/ ResourcesEnemyFires
  \/ ResourcesFlush
  \/ ShieldSessionStart
  \/ ShieldCollected
  \/ ShieldContact
  \/ ShieldTick
  \/ WeaponSessionPause
  \/ WeaponSessionResume
  \/ WeaponSessionMenu

SpecResources == InitResources /\ [][NextResources]_vars

-----------------------------------------------------------------------------
(* The timed effects of PowerUpSystem (src/unnamed/part_005) beside the    *)
(* ScoreSystem: powerup:collect is published for a Score Multiplier        *)
(* pick-up, score:add for destroyed enemies, and the frame loop updates    *)
(* both systems.  No subscriber of powerup:multiplier is registered        *)
(* anywhere in the program, and ScoreSystem.activateMultiplier has no      *)
(* caller.                                                                  *)

SCORE_MULTIPLIER == 5
SCORE_MULTIPLIER_VALUE == 2
SCORE_MULTIPLIER_DURATION == 15 * UnitsPerSecond

\* the collections followed in a run
MaxCollected == 2

\* an effect added without removing the one of the same type
AddTimedEffect_Stacks(effects, type, duration) ==
  Append(effects,
         [type |-> type, remainingTime |-> duration, maxTime |-> duration])

\* addTimedEffect(type, duration)
AddTimedEffect(effects, type, duration) ==
  Append(SelectSeq(effects, LAMBDA e : e.type # type),
         [type |-> type, remainingTime |-> duration, maxTime |-> duration])

\* hasEffect(type)
HasEffect(effects, type) == \E i \in DOMAIN effects : effects[i].type = type

\* the second half of PowerUpSystem.update: the effects count down and the
\* expired ones leave the list
EffectsUpdate(effects, d) ==
  SelectSeq([i \in DOMAIN effects |->
               [effects[i] EXCEPT !.remainingTime = @ - d]],
            LAMBDA e : e.remainingTime > 0)

\* activateMultiplier(duration)
ActivateMultiplier(sc, duration) ==
  [sc EXCEPT !.multiplier = SCORE_MULTIPLIER_VALUE, !.multiplierTimer = duration]

MultiplierKeeps ==
  UNCHANGED <<storeVars, state, previousState, playerEntity, bombs, shieldHits,
              waveVars, difficultyVars, pendingSpawns, menuVars, inputState, timers, input, dt,
              collisions, pc, harnessVars, busVars, aiVars, limits>>

\* powerup:collect {powerUp: {type: ScoreMultiplier}}: applyPowerUp adds the
\* timed effect and emits powerup:multiplier, which nothing receives
MultiplierCollected ==
  /\ obs.pickups < MaxCollected
  /\ activeEffects' = AddTimedEffect(activeEffects, SCORE_MULTIPLIER,
                                      SCORE_MULTIPLIER_DURATION)
  /\ obs' = [obs EXCEPT !.pickups = @ + 1]
  /\ UNCHANGED scoreVars
  /\ MultiplierKeeps

\* score:add {value}
MultiplierScoreAdd ==
  /\ \E value \in ScoreValues :
       /\ score + value * SCORE_MULTIPLIER_VALUE <= MaxScore
       /\ ScoreAssign(AddScore(ScoreFields, value), FALSE)
  /\ UNCHANGED <<activeEffects, obs>>
  /\ MultiplierKeeps

\* a playing frame: powerUpSystem.update(dt), then scoreSystem.update(dt)
MultiplierTick ==
  /\ activeEffects' = EffectsUpdate(activeEffects, FrameDt)
  /\ ScoreAssign(ScoreUpdate(ScoreFields, FrameDt), TRUE)
  /\ UNCHANGED obs
  /\ MultiplierKeeps

InitMultiplier ==
  /\ InitProgram /\ InitHarness
  /\ limits = [waveCap |-> 0, sessions |-> 0, harm |-> FALSE,
               created |-> 0, shots |-> 0, controls |-> {}, drops |-> {},
               cull |-> FALSE]

NextMultiplier ==
  \/ MultiplierCollected
  \/ MultiplierScoreAdd
  \/ MultiplierTick

SpecMultiplier == InitMultiplier /\ [][NextMultiplier]_vars

-----------------------------------------------------------------------------
(* The timed effects on their own: powerup:collect is published for Speed, *)
(* Score Multiplier and Shield pick-ups at any moment, the frame loop      *)
(* updates PowerUpSystem and a session start resets it.  The events        *)
(* published by the latest step are kept in busLog.                        *)

SPEED == 3
SPEED_BOOST_DURATION == 20 * UnitsPerSecond

\* the duration applyPowerUp gives to a timed type
EffectDuration(type) ==
  IF type = SPEED THEN SPEED_BOOST_DURATION ELSE SCORE_MULTIPLIER_DURATION

\* applyPowerUp(type) for the timed types, and what it emits
ApplyTimedPowerUp(effects, type) ==
  IF type \in {SPEED, SCORE_MULTIPLIER}
  THEN AddTimedEffect(effects, type, EffectDuration(type))
  ELSE effects

TimedPowerUpEvents(type) ==
  CASE type = SPEED -> << [name |-> "powerup:speed"] >>
    [] type = SCORE_MULTIPLIER -> << [name |-> "powerup:multiplier"] >>
    [] OTHER -> << >>

\* the powerup:expire events of PowerUpSystem.update, which walks the list
\* from its end
RECURSIVE ExpireEvents(_, _, _)
ExpireEvents(effects, d, i) ==
  IF i < 1 THEN << >>
  ELSE (IF effects[i].remainingTime - d <= 0
        THEN << [name |-> "powerup:expire", type |-> effects[i].type] >>
        ELSE << >>) \o ExpireEvents(effects, d, i - 1)

EffectsKeeps ==
  UNCHANGED <<inputState, input, dt, collisions, pc, lastCall, nChanges, dispatching,
              nPairs, busVars, scoreVars, aiVars, limits>>

\* powerup:collect {powerUp: {type}}; the event is kept with a note of
\* whether an effect of the type was active when it was published
EffectCollected ==
  /\ \E type \in {SHIELD, SPEED, SCORE_MULTIPLIER} :
       /\ Commit(ApplyPowerUp(Cur, type))
       /\ activeEffects' = ApplyTimedPowerUp(activeEffects, type)
       /\ busLog' = << [name |-> "powerup:collect", type |-> type,
                         held |-> HasEffect(activeEffects, type)] >>
                       \o TimedPowerUpEvents(type)
  /\ EffectsKeeps

\* powerUpSystem.update(dt) with nothing to spawn
EffectsTick ==
  /\ activeEffects # << >>
  /\ activeEffects' = EffectsUpdate(activeEffects, FrameDt)
  /\ busLog' = ExpireEvents(activeEffects, FrameDt, Len(activeEffects))
  /\ Commit(Cur)
  /\ EffectsKeeps

\* startGame: powerUpSystem.reset()
EffectsReset ==
  /\ activeEffects # << >>
  /\ activeEffects' = << >>
  /\ busLog' = << >>
  /\ Commit(PowerUpReset(Cur))
  /\ EffectsKeeps

InitEffects ==
  /\ InitProgram /\ InitHarness
  /\ limits = [waveCap |-> 0, sessions |-> 0, harm |-> FALSE,
               created |-> 0, shots |-> 0, controls |-> {}, drops |-> {},
               cull |-> FALSE]

NextEffects ==
  \/ EffectCollected
  \/ EffectsTick
  \/ EffectsReset

SpecEffects == InitEffects /\ [][NextEffects]_vars

-----------------------------------------------------------------------------
(* The events of the program and their subscribers.  A subscriber is kept  *)
(* as the sequences of events it can publish in one call, one sequence for *)
(* every path through its body; what else it does is left out.  emit calls *)
(* the subscribers of the event one after the other, and an emit inside a  *)
(* subscriber is dispatched before the subscriber goes on.                 *)

\* the enemies a bomb destroys at most
MaxBombed == 2

Quiet == { << >> }

\* GameStateMachine.transition(newState): nothing when the state is the
\* current one, else state:change and state:<newState>
TransitionPaths(states) ==
  Quiet \cup { << "state:change", name >> : name \in states }

\* the input:bomb subscriber: three events for every enemy destroyed
RECURSIVE BombPath(_)
BombPath(n) ==
  IF n = 0 THEN << >>
  ELSE << "score:add", "enemy:destroyed", "explosion" >> \o BombPath(n - 1)

\* an explosion subscriber that publishes player:damage
Subscribers_ExplosionHurts(event) ==
  CASE event = "player:damage" ->
         << { << >>, << "explosion" >>, << "game:over" >> }, Quiet >>
    [] event = "explosion" -> << { << "player:damage" >> }, Quiet >>
    [] event = "game:over" -> << TransitionPaths({"state:gameover"}) >>
    [] OTHER -> << >>

\* the subscribers of every event, in the order of the files:
\* game-state.ts, damage-system.ts, collision-system.ts, main.ts,
\* ui-manager.ts, part_005, part_006, part_008
Subscribers(event) ==
  CASE event = "input:pause" ->
         << TransitionPaths({"state:paused", "state:playing"}) >>
    [] event = "game:start" ->
         << TransitionPaths({"state:playing"}),
            { << "wave:start", "difficulty:update" >>,
              << "wave:start", "difficulty:update", "boss:warning" >> } >>
    [] event = "game:over" -> << TransitionPaths({"state:gameover"}) >>
    [] event = "game:menu" -> << TransitionPaths({"state:menu"}), Quiet >>
    [] event = "game:resume" -> << TransitionPaths({"state:playing"}) >>
    [] event = "enemy:destroyed" -> << Quiet, Quiet, Quiet >>
    [] event = "score:add" -> << Quiet >>
    [] event = "wave:start" -> << Quiet, Quiet, Quiet >>
    [] event = "player:damage" ->
         << { << >>, << "explosion" >>, << "game:over" >> }, Quiet >>
    [] event = "explosion" -> << Quiet, Quiet >>
    [] event = "powerup:spreadshot" -> << Quiet >>
    [] event = "powerup:shield" -> << Quiet >>
    [] event = "powerup:bomb" -> << Quiet >>
    [] event = "powerup:collect" ->
         << Quiet,
            { << >>, << "powerup:spreadshot" >>, << "powerup:shield" >>,
              << "powerup:bomb" >>, << "powerup:speed" >>,
              << "powerup:multiplier" >> },
            Quiet >>
    [] event = "input:bomb" -> << { BombPath(n) : n \in 0 .. MaxBombed } >>
    [] event = "difficulty:update" -> << Quiet >>
    [] event = "state:change" -> << Quiet >>
    [] event = "boss:warning" -> << Quiet, Quiet >>
    [] event = "powerup:spawn" -> << Quiet >>
    [] event = "player:position" -> << Quiet >>
    [] event = "playerShoot" -> << Quiet >>
    [] event = "enemyShoot" -> << Quiet >>
    [] event \in {"state:playing", "state:paused", "state:gameover",
                  "state:menu"} -> << Quiet >>
    [] OTHER -> << >>

\* the events published outside the subscribers: by InputManager.update,
\* the screens of the menu, gameLoop and the update methods of the systems
RootEvents ==
  {"input:pause", "input:bomb", "game:start", "game:resume", "game:menu",
   "player:position", "score:add", "enemy:destroyed", "explosion",
   "powerup:spawn", "enemy:hit", "player:damage", "powerup:collect",
   "wave:start", "difficulty:update", "boss:warning", "powerup:expire",
   "enemyShoot", "enemy:spawnDrone", "playerShoot"}

\* a call of emit(event) that has called none of its subscribers yet
Call(event) == [event |-> event, subscriber |-> 1, path |-> << >>, next |-> 0]

DispatchKeeps ==
  UNCHANGED <<storeVars, state, previousState, playerEntity, bombs, shieldHits,
              waveVars, difficultyVars, pendingSpawns, menuVars, inputState,
              timers, input, dt, collisions, pc, busLog, lastCall, nChanges,
              nPairs, busVars, scoreVars, effectVars, aiVars, obs, limits>>

Top == dispatching.stack[Len(dispatching.stack)]

SetTop(frame) ==
  [dispatching EXCEPT !.stack[Len(dispatching.stack)] = frame,
                      !.steps = @ + 1]

\* emit is called from outside the subscribers
EmitFromOutside ==
  /\ dispatching.stack = << >>
  /\ \E event \in RootEvents :
        dispatching' = [stack |-> << Call(event) >>, steps |-> 0]
  /\ DispatchKeeps

\* emit calls the next subscriber of the event, which takes one of its paths
CallSubscriber ==
  /\ dispatching.stack # << >>
  /\ Top.next = 0
  /\ Top.subscriber <= Len(Subscribers(Top.event))
  /\ \E path \in Subscribers(Top.event)[Top.subscriber] :
        dispatching' = SetTop([Top EXCEPT !.path = path, !.next = 1])
  /\ DispatchKeeps

\* the subscriber that is running calls emit
EmitFromSubscriber ==
  /\ dispatching.stack # << >>
  /\ Top.next >= 1
  /\ Top.next <= Len(Top.path)
  /\ dispatching' =
       [stack |-> Append(SetTop([Top EXCEPT !.next = @ + 1]).stack,
                         Call(Top.path[Top.next])),
        steps |-> dispatching.steps + 1]
  /\ DispatchKeeps

\* the subscriber that is running returns
SubscriberReturns ==
  /\ dispatching.stack # << >>
  /\ Top.next > Len(Top.path)
  /\ dispatching' = SetTop([Top EXCEPT !.subscriber = @ + 1, !.path = << >>,
                                        !.next = 0])
  /\ DispatchKeeps

\* every subscriber of the event has been called: emit returns
EmitReturns ==
  /\ dispatching.stack # << >>
  /\ Top.next = 0
  /\ Top.subscriber > Len(Subscribers(Top.event))
  /\ dispatching' =
       [stack |-> SubSeq(dispatching.stack, 1, Len(dispatching.stack) - 1),
        steps |-> dispatching.steps + 1]
  /\ DispatchKeeps

InitDispatch ==
  /\ InitProgram /\ InitHarness
  /\ limits = [waveCap |-> 0, sessions |-> 0, harm |-> FALSE,
               created |-> 0, shots |-> 0, controls |-> {}, drops |-> {},
               cull |-> FALSE]

NextDispatch ==
  \/ EmitFromOutside
  \/ CallSubscriber
  \/ EmitFromSubscriber
  \/ SubscriberReturns
  \/ EmitReturns

SpecDispatch == InitDispatch /\ [][NextDispatch]_vars

-----------------------------------------------------------------------------
(* Properties of the enemy AI *)

\* C24: no AI record outlives its entity.  After every AI update the
\* records are those of entities that held Enemy when the tick began, and
\* the record of an enemy is the one created for it at its first update:
\* its behaviour timer has counted the updates that enemy has gone through
\* and nothing else, also in a session that hands out the identifiers of
\* an earlier one again.
C24_AIStateFreshPerEntity ==
  [][obs'.ticks # obs.ticks =>
       /\ DOMAIN aiStates' \subseteq DOMAIN components["Enemy"]
       /\ \A e \in DOMAIN aiStates' :
            /\ e \in DOMAIN obs'.updates
            /\ aiStates'[e].behaviorTimer = obs'.updates[e] * FrameDt]_vars

\* the strafing units: the hive mother, the gunship and the dreadnought
Strafers ==
  {e \in DOMAIN components["Enemy"] :
     components["Enemy"][e].behaviorId
       \in {SWARM_HIVE_MOTHER, ARMADA_GUNSHIP, ARMADA_DREADNOUGHT}}

\* the distance from the screen edge at which a unit reverses
Threshold(e) ==
  CASE components["Enemy"][e].behaviorId = SWARM_HIVE_MOTHER -> 80
    [] components["Enemy"][e].behaviorId = ARMADA_GUNSHIP -> 60
    [] OTHER -> 100

\* C29: a strafing unit that has reversed travels back until it reaches the
\* opposite threshold: from one tick to the next a unit moving left that
\* has not passed the left threshold does not turn right, and a unit moving
\* right that has not passed the right threshold does not turn left; so a
\* unit beyond a threshold that has turned back leaves it behind.
C29_StraferTravelsBack ==
  [][\A e \in Strafers :
       (e \in DOMAIN components'["Velocity"] /\ e \in DOMAIN components["Velocity"]) =>
         LET x == components["Transform"][e].x
             vx == components["Velocity"][e].vx
             after == components'["Velocity"][e].vx
         IN /\ (vx < 0 /\ x >= Threshold(e)) => after <= 0
            /\ (vx > 0 /\ x <= SCREEN_WIDTH - Threshold(e)) => after >= 0]_vars

\* the diving units: the stingers that have a record
Divers(records) ==
  {e \in DOMAIN records :
     /\ e \in DOMAIN components["Enemy"]
     /\ components["Enemy"][e].behaviorId = SWARM_STINGER}

\* C30: over every tick, a stinger's phase stays 1 once it is 1; its dive
\* target is unset as long as the phase is 0 (from the creation of the
\* record on), is set in the tick in which the phase goes from 0 to 1 to the
\* player position the AI system holds in that tick, and is the same before
\* and after every other tick.
C30_DiveTargetCapturedOnce ==
  [][\A e \in Divers(aiStates') :
       LET now == aiStates'[e]
       IN IF e \in DOMAIN aiStates
          THEN LET was == aiStates[e]
               IN /\ was.phase = 1 => now.phase = 1
                  /\ was.phase = 0 => was.diveTarget = NoTarget
                  /\ now.phase = was.phase => now.diveTarget = was.diveTarget
                  /\ (was.phase = 0 /\ now.phase = 1) =>
                       now.diveTarget = [none |-> FALSE, x |-> playerX', y |-> playerY']
          ELSE now.phase = 0 /\ now.diveTarget = NoTarget]_vars

\* a stinger dives at where the player was when the dive began, the player
\* having moved elsewhere since
C30_Witness ==
  \E e \in Divers(aiStates) :
    /\ aiStates[e].phase = 1
    /\ ~aiStates[e].diveTarget.none
    /\ aiStates[e].diveTarget.x # playerX
    /\ components["Velocity"][e].vy > 50

\* how far a position is from the region in which update keeps bullets
Beyond(t) ==
  Max2(0, Max2((0 - OFF_SCREEN_MARGIN) - t.x, t.x - (SCREEN_WIDTH + OFF_SCREEN_MARGIN)))
  + Max2(0, Max2((0 - OFF_SCREEN_MARGIN) - t.y, t.y - (SCREEN_HEIGHT + OFF_SCREEN_MARGIN)))

\* C31: no live enemy is irreversibly outside the region in which player
\* bullets exist: over every tick, an enemy that is outside the region
\* before and after the tick has come closer to it.
C31_EnemiesComeBack ==
  [][obs'.ticks # obs.ticks =>
       \A e \in DOMAIN components["Enemy"] \cap DOMAIN components'["Enemy"] :
         LET was == components["Transform"][e]
             now == components'["Transform"][e]
         IN (Beyond(was) > 0 /\ Beyond(now) > 0) => Beyond(now) < Beyond(was)]_vars

\* the enemies that have lost health
Damaged ==
  {e \in DOMAIN components["Enemy"] :
     components["Health"][e].current < components["Health"][e].max}

PlayerBullets ==
  {e \in DOMAIN components["Bullet"] : components["Bullet"][e].owner = "Player"}

\* C32: a player bullet reduces the health of at most one enemy: when
\* damageSystem.update has run, the enemies that have lost health are no
\* more than the player bullets there were.
C32_BulletDamagesOneEnemy ==
  pc = "flush" => Cardinality(Damaged) <= Cardinality(PlayerBullets)

\* C33: when MovementSystem.update has run, the entities marked for
\* destruction are exactly those with a Transform and a Velocity whose
\* position after the move is beyond the screen and its margin and that
\* hold neither the Enemy tag nor PlayerInput; each is marked once.
C33_CulledIffOffScreen ==
  pc = "flush" =>
    /\ \A e \in entities :
         (e \in Range(toDestroy)) <=>
           /\ e \in DOMAIN components["Transform"] \cap DOMAIN components["Velocity"]
           /\ OffScreen(components["Transform"][e])
           /\ e \notin DOMAIN components["Enemy"]
           /\ e \notin DOMAIN components["PlayerInput"]
    /\ Len(toDestroy) = Cardinality(Range(toDestroy))

\* a bullet or pick-up that was on the border x = -100 has moved one pixel
\* out and is marked
C33_Witness ==
  /\ pc = "flush"
  /\ \E e \in Range(toDestroy) :
        /\ components["Transform"][e].x = -101
        /\ components["Velocity"][e].vx < 0

-----------------------------------------------------------------------------
(* Properties of the cooldown of the weapon *)

\* C34: on each tick of a session the cooldown of the player's weapon goes
\* down by dt; the tick fires exactly when the fire intent is set and the
\* cooldown is then at or below 0; a tick that fires sets the cooldown to
\* 1/fireRate and creates one bullet for every angle of the weapon's
\* pattern, and it comes at least 1/fireRate of played time after the
\* weapon's previous shot; a tick that does not fire creates nothing.
C34_ShotsFollowTheCooldown ==
  [][(obs'.ticks = obs.ticks + 1 /\ obs'.session = obs.session) =>
       LET was == components["Weapon"][playerEntity]
           now == components'["Weapon"][playerEntity]
           made == nextEntityId .. (nextEntityId' - 1)
           fires == input'.fire /\ was.cooldown - dt' <= 0
       IN /\ playerEntity' = playerEntity
          /\ made \subseteq DOMAIN components'["Bullet"]
          /\ \A e \in made : components'["Bullet"][e].owner = "Player"
          /\ IF fires
             THEN /\ now.cooldown = FireInterval
                  /\ Cardinality(made) = Len(GetFireAngles(was.type))
                  /\ obs.sinceShot + dt' >= FireInterval
             ELSE /\ now.cooldown = was.cooldown - dt'
                  /\ made = {}]_vars

\* a weapon with the five-angle pattern has just fired, after the third
\* tick of its session or later, and it had fired before
C34_Witness ==
  /\ state = "playing"
  /\ obs.sinceShot = 0
  /\ obs.ticks >= 3
  /\ input.fire
  /\ components["Weapon"][playerEntity].type = 2
  /\ \E e \in DOMAIN components["Bullet"] :
        /\ e + 5 = nextEntityId
        /\ e - 1 \in DOMAIN components["Bullet"]

-----------------------------------------------------------------------------
(* Properties of the bombs and the shield *)

\* the enemy bullets of the store
HostileBullets ==
  {e \in DOMAIN components["Bullet"] :
     /\ e \in DOMAIN components["Collider"]
     /\ components["Collider"][e].layer = "EnemyBullet"}

\* C40: the bomb count is always between 0 and 3 and the shield hit count
\* between 0 and SHIELD_HITS; a step that lowers the bomb count lowers it
\* by one, from a count above 0 in a playing session, takes BOMB_DAMAGE
\* from the health of every enemy and marks every enemy bullet for
\* destruction.
C40_BombsAndShieldInBounds ==
  /\ [](/\ bombs \in 0 .. 3
        /\ shieldHits \in 0 .. SHIELD_HITS)
  /\ [][bombs' < bombs =>
          /\ bombs' = bombs - 1
          /\ bombs > 0
          /\ state = "playing"
          /\ \A e \in DOMAIN components["Enemy"] :
                e \in DOMAIN components["Health"] =>
                  components'["Health"][e].current
                    = components["Health"][e].current - BOMB_DAMAGE
          /\ HostileBullets \subseteq Range(toDestroy')]_vars

\* a bomb has just been used behind a shield that has taken a hit: an
\* enemy bullet and a drone are marked for destruction
C40_Witness ==
  /\ state = "playing"
  /\ bombs = BOMB_LIMIT - 1
  /\ shieldHits = SHIELD_HITS - 1
  /\ HostileBullets # {}
  /\ HostileBullets \subseteq Range(toDestroy)
  /\ \E e \in Range(toDestroy) : e \in DOMAIN components["Enemy"]

-----------------------------------------------------------------------------
(* Properties of the dispatch of events *)

\* the deepest nesting of emit: player:damage, game:over, state:change
MaxDepth == 3

\* the most steps of one call of emit from outside the subscribers: the
\* bomb, with eighteen steps for every enemy it destroys
MaxDispatchSteps == 3 + 18 * MaxBombed

\* C39: no event is being dispatched twice at any moment: no subscriber,
\* called directly or through other subscribers, publishes an event whose
\* emit is in progress; at most MaxDepth calls of emit are nested, and
\* every call of emit made from outside comes to its end within
\* MaxDispatchSteps steps.
C39_NoEventDispatchedTwice ==
  /\ \A i, j \in DOMAIN dispatching.stack :
        dispatching.stack[i].event = dispatching.stack[j].event => i = j
  /\ Len(dispatching.stack) <= MaxDepth
  /\ dispatching.steps <= MaxDispatchSteps

\* player:damage has led to game:over, and game:over to state:change,
\* whose subscriber is running
C39_Witness ==
  /\ Len(dispatching.stack) = 3
  /\ dispatching.stack[1].event = "player:damage"
  /\ dispatching.stack[2].event = "game:over"
  /\ dispatching.stack[3].event = "state:change"
  /\ dispatching.stack[3].next = 1

-----------------------------------------------------------------------------
(* Properties of the timed effects *)

\* the events of a name in a log
Named(log, name) == {i \in DOMAIN log : log[i].name = name}

\* the entries of a type in a list of effects
OfType(effects, type) == {i \in DOMAIN effects : effects[i].type = type}

\* C38: activeEffects never holds two entries of one type; when a Speed or
\* Score Multiplier pick-up is collected the list afterwards holds exactly
\* one entry of that type, with the full duration of the type as remaining
\* time, and the entries of the other types are as they were.
C38_OneEffectPerType ==
  /\ [](\A i, j \in DOMAIN activeEffects :
          activeEffects[i].type = activeEffects[j].type => i = j)
  /\ [][\A k \in Named(busLog', "powerup:collect") :
          LET type == busLog'[k].type
              kept(effects) == SelectSeq(effects, LAMBDA e : e.type # type)
          IN type \in {SPEED, SCORE_MULTIPLIER} =>
               /\ Cardinality(OfType(activeEffects', type)) = 1
               /\ \A i \in OfType(activeEffects', type) :
                     /\ activeEffects'[i].remainingTime = EffectDuration(type)
                     /\ activeEffects'[i].maxTime = EffectDuration(type)
               /\ kept(activeEffects') = kept(activeEffects)]_vars

\* a Speed pick-up has just been collected while a Speed effect and a
\* Score Multiplier effect with five seconds left were active
C38_Witness ==
  /\ \E k \in Named(busLog, "powerup:collect") :
        busLog[k].type = SPEED /\ busLog[k].held
  /\ Len(activeEffects) = 2
  /\ activeEffects[1].type = SCORE_MULTIPLIER
  /\ activeEffects[1].remainingTime = 5 * UnitsPerSecond
  /\ activeEffects[2].type = SPEED
  /\ activeEffects[2].remainingTime = SPEED_BOOST_DURATION

-----------------------------------------------------------------------------
(* Properties of the wave director through the waves *)

\* the step starts a wave: the next wave of the session, or the first wave
\* of a new session
WaveStarted == currentWave' # currentWave \/ obs'.session # obs.session

\* the units that the step has spawned
FreshUnits ==
  {e \in entities' \ (IF obs'.session # obs.session THEN {} ELSE entities) :
     e \in DOMAIN components'["Enemy"]}

\* C35: every wave start spawns at least one drone and at most 12, no
\* stinger before wave 3 and at most 5, no sentinel before wave 6 and at
\* most 6, no gunship before wave 8 and at most 4; and it spawns at least
\* as many units of each of the four archetypes as the wave start before
\* it in the session.
C35_RosterGatesCapsGrowth ==
  [][WaveStarted =>
       LET n == obs'.spawned
           w == currentWave'
       IN /\ n[SWARM_DRONE] >= 1 /\ n[SWARM_DRONE] <= 12
          /\ (w < 3 => n[SWARM_STINGER] = 0) /\ n[SWARM_STINGER] <= 5
          /\ (w < 6 => n[ARMADA_SENTINEL] = 0) /\ n[ARMADA_SENTINEL] <= 6
          /\ (w < 8 => n[ARMADA_GUNSHIP] = 0) /\ n[ARMADA_GUNSHIP] <= 4
          /\ \A b \in 0 .. 5 :
                n[b] = Cardinality({e \in FreshUnits :
                                     components'["Enemy"][e].behaviorId = b})
          /\ obs'.session = obs.session =>
                \A b \in {SWARM_DRONE, SWARM_STINGER, ARMADA_SENTINEL,
                           ARMADA_GUNSHIP} : n[b] >= obs.spawned[b]]_vars

\* wave 17 has started with every archetype at its cap
C35_Witness ==
  /\ state = "playing"
  /\ currentWave = 17
  /\ obs.spawned[SWARM_DRONE] = 12
  /\ obs.spawned[SWARM_STINGER] = 5
  /\ obs.spawned[ARMADA_SENTINEL] = 6
  /\ obs.spawned[ARMADA_GUNSHIP] = 4
  /\ Cardinality(DOMAIN components["Enemy"]) = 27

\* C36: a wave start spawns a mini-boss (a hive mother or a dreadnought)
\* exactly when the index of the wave is a multiple of MINIBOSS_INTERVAL;
\* it then spawns one only, whose health is above that of every other unit
\* of the wave, and publishes boss:warning once, after the wave:start of
\* that wave; every other step publishes no boss:warning.
C36_MiniBossEveryTenthWave ==
  [][LET warnings == Named(busLog', "boss:warning")
         bosses == {e \in FreshUnits :
                      components'["Enemy"][e].behaviorId
                        \in {SWARM_HIVE_MOTHER, ARMADA_DREADNOUGHT}}
     IN IF WaveStarted
        THEN /\ (bosses # {}) <=> (currentWave' % MINIBOSS_INTERVAL = 0)
             /\ Cardinality(bosses) <= 1
             /\ \A b \in bosses : \A e \in FreshUnits \ {b} :
                   components'["Health"][b].max > components'["Health"][e].max
             /\ Cardinality(warnings) = Cardinality(bosses)
             /\ \A j \in warnings : \E i \in Named(busLog', "wave:start") :
                   i < j /\ busLog'[i].wave = currentWave'
        ELSE warnings = {}]_vars

\* wave 20 has just started: the dreadnought is among its units and the
\* warning has been published
C36_Witness ==
  /\ currentWave = 2 * MINIBOSS_INTERVAL
  /\ Named(busLog, "boss:warning") # {}
  /\ \E e \in DOMAIN components["Enemy"] :
        /\ components["Enemy"][e].behaviorId = ARMADA_DREADNOUGHT
        /\ components["Health"][e].current = 25
  /\ Cardinality(DOMAIN components["Enemy"]) = 28

\* C37: from one wave start to the next of a session neither multiplier of
\* the wave director goes down, and one goes up only when the new wave is
\* one more than a multiple of DIFFICULTY_ESCALATION_INTERVAL; between wave
\* starts they do not change; a multiplier comes back to 1.0 from another
\* value only in a step that starts a new session; every wave start
\* publishes difficulty:update once, carrying the bullet-speed multiplier
\* the wave director then holds, which the enemy AI takes over.
C37_MultipliersOnlyGrow ==
  [][LET restart == obs'.session # obs.session
         updates == Named(busLog', "difficulty:update")
     IN /\ ~restart =>
             /\ difficultyMultiplier' >= difficultyMultiplier
             /\ spawnRateMultiplier' >= spawnRateMultiplier
             /\ (\/ difficultyMultiplier' > difficultyMultiplier
                 \/ spawnRateMultiplier' > spawnRateMultiplier)
                  => /\ currentWave' = currentWave + 1
                     /\ currentWave' > 1
                     /\ (currentWave' - 1) % DIFFICULTY_ESCALATION_INTERVAL = 0
        /\ restart =>
             difficultyMultiplier' = Whole /\ spawnRateMultiplier' = Whole
        /\ IF WaveStarted
           THEN /\ Cardinality(updates) = 1
                /\ \A i \in updates :
                      busLog'[i].bulletSpeedMult = difficultyMultiplier'
                /\ bulletSpeedMultiplier' = difficultyMultiplier'
           ELSE updates = {}]_vars

\* wave 21 has just started, in a session started after another:
\* the fourth escalation has been announced
C37_Witness ==
  /\ currentWave = MaxWaves
  /\ obs.session = 2
  /\ difficultyMultiplier = Whole + 4 * BULLET_SPEED_INCREASE
  /\ spawnRateMultiplier = Whole + 4 * SPAWN_RATE_INCREASE
  /\ \E i \in Named(busLog, "difficulty:update") :
        busLog[i].bulletSpeedMult = Whole + 4 * BULLET_SPEED_INCREASE

-----------------------------------------------------------------------------
(* Properties of the damage resolver while the player is invincible *)

\* C25 as stated: while the player's invincible flag is set, processing an
\* EnemyBullet-Player or Enemy-Player pair is a no-op: no player:damage is
\* emitted, no entity is marked for destruction and no component value
\* changes.
C25_InvinciblePairIsNoOp ==
  obs.window.pair # "none" =>
    /\ ~obs.window.emitted
    /\ obs.window.marked = {}
    /\ ~obs.window.changed

\* C25 as amended: while the player's invincible flag is set, processing
\* such a pair emits no player:damage and changes no component value; an
\* Enemy-Player pair marks nothing for destruction, an EnemyBullet-Player
\* pair marks the enemy bullet of the pair and nothing else.
C25_InvinciblePairOnlyEndsBullet ==
  obs.window.pair # "none" =>
    /\ ~obs.window.emitted
    /\ ~obs.window.changed
    /\ obs.window.pair = "Enemy" => obs.window.marked = {}
    /\ obs.window.pair = "EnemyBullet" => obs.window.marked = {obs.window.bullet}

C25_Witness ==
  /\ obs.window.pair = "EnemyBullet"
  /\ obs.window.marked = {obs.window.bullet}
  /\ obs.hits = 1
  /\ PlayerStored(components)
  /\ PlayerHealth(components).current = PLAYER_START_HP - 1

-----------------------------------------------------------------------------
(* Properties of the damage resolver for a player bullet that meets an     *)
(* enemy                                                                    *)

HitEvents(name) ==
  {i \in DOMAIN obs.lastHit.events : obs.lastHit.events[i].name = name}

\* C26: for every PlayerBullet-Enemy pair the bullet is marked for
\* destruction and the enemy's health falls by the bullet's damage; if the
\* health is then at or below 0 the enemy is marked for destruction, an
\* enemy:destroyed event carries its position and faction and a score:add
\* event its score value; otherwise the only event is enemy:hit for that
\* enemy and the enemy is not marked.
C26_BulletHitEnemy ==
  obs.lastHit.bullet # -1 =>
    /\ obs.lastHit.bullet \in obs.lastHit.marked
    /\ obs.lastHit.was - obs.lastHit.now = obs.lastHit.damage
    /\ obs.lastHit.now <= 0 =>
         /\ obs.lastHit.enemy \in obs.lastHit.marked
         /\ \E i \in HitEvents("enemy:destroyed") :
              /\ obs.lastHit.events[i].x = obs.lastHit.at.x
              /\ obs.lastHit.events[i].y = obs.lastHit.at.y
              /\ obs.lastHit.events[i].faction = obs.lastHit.unit.faction
         /\ \E i \in HitEvents("score:add") :
              obs.lastHit.events[i].value = obs.lastHit.unit.scoreValue
         /\ HitEvents("enemy:hit") = {}
    /\ obs.lastHit.now > 0 =>
         /\ obs.lastHit.enemy \notin obs.lastHit.marked
         /\ Len(obs.lastHit.events) = 1
         /\ obs.lastHit.events[1].name = "enemy:hit"
         /\ obs.lastHit.events[1].entity = obs.lastHit.enemy

\* the gunship has taken its second hit
C26_Witness ==
  /\ obs.lastHit.bullet # -1
  /\ obs.lastHit.was = 1
  /\ obs.lastHit.now = 0
  /\ obs.lastHit.unit.behaviorId = ARMADA_GUNSHIP
  /\ obs.lastHit.marked = {obs.lastHit.bullet, obs.lastHit.enemy}

-----------------------------------------------------------------------------
(* Properties of the pause *)

\* C27: a session paused by a pause input stays Paused, and no tick runs,
\* until a later, separate input: the session leaves Paused only in a step
\* that follows a press or a click made after the press that paused it.
C27_PauseHoldsUntilNextInput ==
  [][/\ (state = "paused" /\ state' # "paused") => obs'.fresh
     /\ pc' = "systems" => state' = "playing"]_vars

-----------------------------------------------------------------------------
(* Properties of the score system *)

\* C15: in every state reached by calls of addScore, update and reset the
\* displayed score is at most the score.
C15_DisplayNeverAboveScore == displayScore <= score

\* the display is strictly between 0 and a score that has grown twice
C15_Witness ==
  /\ score >= 2 * SCORE_BASIC_ENEMY
  /\ 0 < displayScore
  /\ displayScore < score

\* C16: after the score last changed, leaving a gap g between it and the
\* display, every call of update narrows what is left of the gap by at
\* least one point, so that after at most g calls the display equals the
\* score exactly; and once equal it stays equal as long as the score does
\* not change.
C16_DisplayConverges ==
  [][/\ score' - displayScore' <= Max2(0, settle'.gap - settle'.ticks)
     /\ (displayScore = score /\ score' = score) => displayScore' = score']_vars

\* the display has caught up with a score by calls of update, the last of
\* them advancing it by the floor of one point
C16_Witness ==
  /\ score >= SCORE_BASIC_ENEMY
  /\ displayScore = score
  /\ settle.gap >= SCORE_BASIC_ENEMY
  /\ settle.ticks >= 5

-----------------------------------------------------------------------------
(* Properties of the weapon *)

\* the player bullets a step has added to the store
NewPlayerBullets ==
  {e \in entities' \ entities :
     /\ HasComponent(World', e, "Bullet")
     /\ GetComponent(World', e, "Bullet").owner = "Player"}

\* the angles they left with
NewFan == {GetComponent(World', e, "Transform").rotation : e \in NewPlayerBullets}

\* C17: whenever the weapon fires, the fan of the volley is symmetric around
\* 0 (an angle is in it exactly when its negative is) and holds 1 bullet for
\* Single, 3 for Spread3, 5 for Spread5 and 7 for Spread7, each at an angle
\* of its own.
C17_FanSymmetricByTier ==
  [][NewPlayerBullets # {} =>
       LET type == GetComponent(World, playerEntity, "Weapon").type
       IN /\ type \in 0 .. SPREAD7
          /\ Cardinality(NewPlayerBullets) = <<1, 3, 5, 7>>[type + 1]
          /\ Cardinality(NewFan) = Cardinality(NewPlayerBullets)
          /\ \A a \in NewFan : (0 - a) \in NewFan]_vars

\* a volley of seven bullets is in the store, its outermost angles opposite
C17_Witness ==
  \E e \in entities :
    /\ HasComponent(World, e, "Bullet")
    /\ HasComponent(World, e + 6, "Bullet")
    /\ GetComponent(World, e, "Transform").volley = e
    /\ GetComponent(World, e + 6, "Transform").volley = e
    /\ GetComponent(World, e, "Transform").rotation < 0
    /\ GetComponent(World, e + 6, "Transform").rotation
         = 0 - GetComponent(World, e, "Transform").rotation

\* C18: the tier of the player's weapon is the number of spread-shot
\* pick-ups of the session, capped at Spread7: each pick-up advances it by
\* exactly one step, a pick-up at Spread7 leaves it, and within a session no
\* step lowers it.
C18_OneTierPerPickup ==
  [][/\ (playerEntity' # NoEntity /\ HasComponent(World', playerEntity', "Weapon"))
         => GetComponent(World', playerEntity', "Weapon").type
              = Min2(obs'.pickups, SPREAD7)
     /\ (/\ obs'.session = obs.session
         /\ playerEntity # NoEntity /\ HasComponent(World, playerEntity, "Weapon")
         /\ playerEntity' # NoEntity /\ HasComponent(World', playerEntity', "Weapon"))
         => /\ GetComponent(World', playerEntity', "Weapon").type
                 >= GetComponent(World, playerEntity, "Weapon").type
            /\ obs'.pickups = obs.pickups + 1
                 => GetComponent(World', playerEntity', "Weapon").type
                      = Min2(GetComponent(World, playerEntity, "Weapon").type + 1,
                             SPREAD7)]_vars

\* a fourth pick-up has been applied and the weapon is at Spread7
C18_Witness ==
  /\ state = "playing"
  /\ playerEntity # NoEntity
  /\ obs.pickups = SPREAD7 + 1
  /\ GetComponent(World, playerEntity, "Weapon").type = SPREAD7

-----------------------------------------------------------------------------
(* Properties of the store *)

\* C19: for every list of component types, query returns exactly the
\* entities created and not yet flushed or cleared that hold every listed
\* type, each once, in the order of their creation; an entity that misses a
\* listed type, and an identifier that is no longer live, is not returned.
C19_QueryExactInCreationOrder ==
  \A types \in SUBSET StoreTags :
    /\ Query(World, types)
         = SelectSeq(obs.order,
                     LAMBDA e : \A t \in types : e \in DOMAIN components[t])
    /\ Cardinality(Range(Query(World, types))) = Len(Query(World, types))

\* identifier 0 has been flushed and holds a component again; 1 holds both
\* types and awaits its destruction; 2 holds Transform only
C19_Witness ==
  /\ nextEntityId >= 3
  /\ 0 \notin entities
  /\ HasComponent(World, 0, "Transform")
  /\ 1 \in Range(toDestroy)
  /\ Query(World, {"Transform"}) = <<1, 2>>
  /\ Query(World, {"Transform", "Collider"}) = <<1>>

-----------------------------------------------------------------------------
(* Properties of the components stored *)

\* C20: in every state of the store, whatever holds a Collider holds a
\* Transform, and whatever holds a Bullet holds a Collider whose layer is
\* PlayerBullet if the bullet's owner is the player and EnemyBullet if it is
\* an enemy.
C20_ColliderAndBulletShape ==
  /\ \A e \in DOMAIN components["Collider"] : e \in DOMAIN components["Transform"]
  /\ \A e \in DOMAIN components["Bullet"] :
       /\ e \in DOMAIN components["Collider"]
       /\ components["Bullet"][e].owner = "Player"
            => components["Collider"][e].layer = "PlayerBullet"
       /\ components["Bullet"][e].owner = "Enemy"
            => components["Collider"][e].layer = "EnemyBullet"

\* a player bullet, an enemy bullet and a pick-up are in the store together
C20_Witness ==
  /\ \E e \in entities :
       HasComponent(World, e, "Bullet") /\ GetComponent(World, e, "Bullet").owner = "Player"
  /\ \E e \in entities :
       HasComponent(World, e, "Bullet") /\ GetComponent(World, e, "Bullet").owner = "Enemy"
  /\ \E e \in entities : HasComponent(World, e, "PowerUp")

-----------------------------------------------------------------------------
(* Properties of the score multiplier *)

-----------------------------------------------------------------------------
(* Properties of the shield *)

\* C22: after a Shield pick-up the counter is SHIELD_HITS = 3 less the
\* player:damage events the shield has taken since, so each of the next
\* three events lowers it by exactly one; a step in which the shield takes
\* every event leaves the player's health as it was, and health is lowered
\* only by a step that ends with the counter at 0.
C22_ShieldAbsorbsThreeHits ==
  [][/\ obs'.shielded => shieldHits' = SHIELD_HITS - obs'.absorbed
     /\ ~obs'.shielded => shieldHits' = 0
     /\ (/\ obs'.session = obs.session
         /\ PlayerStored(components) /\ PlayerStored(components'))
         => /\ PlayerHealth(components').current < PlayerHealth(components).current
                 => shieldHits' = 0 /\ obs'.hits > obs.hits
            /\ (obs'.absorbed > obs.absorbed /\ obs'.hits = obs.hits)
                 => PlayerHealth(components').current = PlayerHealth(components).current]_vars

\* the shield has taken three events without loss of health, and the
\* fourth has lowered the health by one
C22_Witness ==
  /\ state = "playing"
  /\ obs.shielded /\ obs.absorbed = SHIELD_HITS /\ shieldHits = 0
  /\ obs.hits = 1
  /\ PlayerStored(components)
  /\ PlayerHealth(components).current = PLAYER_START_HP - 1

-----------------------------------------------------------------------------
(* Properties of the destruction of enemies *)

\* C23: enemy:destroyed is emitted at most once for each enemy, whatever
\* bullets and bombs hit it in one frame, and the alive counter of the wave
\* director is never negative.
C23_OneDestroyedEventPerEnemy ==
  /\ obs.repeats = 0
  /\ enemiesAlive >= 0

=============================================================================
